---- MODULE Spec2Model ----
(***************************************************************************)
(* The round-and-period engine of                                          *)
(* packages/valory/skills/abstract_round_abci/base.py: the Period driver   *)
(* (block-construction phase machine), the AbciApp executor (round         *)
(* scheduling, events, timeouts), the Timeouts queue, the StateDB, the     *)
(* Blockchain and the generic round templates.                             *)
(*                                                                         *)
(* Objects are records and methods are operators from the object (and its  *)
(* arguments) to the object after the call.  A method that can raise       *)
(* returns a record with an "err" field naming the exception class ("ok"   *)
(* when it returns normally).  Python's None is the string "None" for      *)
(* optional names and values and NoTime for the optional timestamp.        *)
(***************************************************************************)
EXTENDS Integers, Sequences, FiniteSets, TLC

VARIABLES
    is_setup,       \* Period._abci_app is not None (Period.setup was called)
    phase,          \* Period._block_construction_phase
    blockchain,     \* Period._blockchain._blocks
    block_builder,  \* Period._block_builder
    abci_app,       \* the AbciApp instance, with the StateDB it owns
    outcome,        \* the last call made on the engine and how it ended
    votes_by_participant, \* argument of is_majority_possible
    nb_participants,      \* argument of is_majority_possible
    majority_possible     \* its last return value ("None" before the call)

vars == <<is_setup, phase, blockchain, block_builder, abci_app, outcome, votes_by_participant, nb_participants, majority_possible>>

(***************************************************************************)
(* Bounds of the model.                                                    *)
(***************************************************************************)
\* number of block times offered after the three of the timeout scenario (0, 9 and 11 s)
MaxLaterBlocks == 0
\* number of participants of the round driven directly, and the largest number of
\* participants tried for the quorum arithmetic
MaxVoters == 4
\* number of timeouts added to the queue driven directly
MaxTimeouts == 3
\* largest block_confirmations a round driven directly is taken to
MaxConfirmations == 3

\* largest period index given to add_new_period of the StateDB driven directly
MaxPeriod == 2
\* largest depth given to cleanup
MaxDepth == 2
\* largest round_count the StateDB driven directly is taken to
MaxRoundCount == 1

\* number of rounds ended in the application driven directly before no further event or
\* time is offered
MaxRounds == 3

\* largest max_participants the consensus threshold is computed for
MaxParticipants == 60
\* number of rounds the loop of update_time, run one iteration at a time, may end
MaxIterations == 4

\* block timestamps offered by the consensus layer, in seconds
Times == {0, 9, 11} \cup {11 + 10 * k : k \in 1..MaxLaterBlocks}

(***************************************************************************)
(* Module constants.                                                       *)
(***************************************************************************)
ROUND_COUNT_DEFAULT == -1
MIN_HISTORY_DEPTH == 1
\* AbciApp._last_timestamp is None
NoTime == -1
None == "None"

WAITING_FOR_BEGIN_BLOCK == "waiting_for_begin_block"
WAITING_FOR_DELIVER_TX == "waiting_for_deliver_tx"
WAITING_FOR_COMMIT == "waiting_for_commit"

\* dict() and d[k] = v on a dict
EmptyDict == [k \in {} |-> None]
DictSet(d, k, v) == [x \in (DOMAIN d) \cup {k} |-> IF x = k THEN v ELSE d[x]]
DictGet(d, k, default) == IF k \in DOMAIN d THEN d[k] ELSE default

\* math.ceil(p / q) for q > 0
\* the threshold as two thirds rounded down
consensus_threshold_floor(n) == (2 * n) \div 3

Ceil(p, q) == -((-p) \div q)

consensus_threshold(n) == Ceil(2 * n + 1, 3)

(***************************************************************************)
(* Payloads and transactions.  A payload is                                *)
(* [sender, round_count, transaction_type, value]: value is the field the  *)
(* round's payload_attribute names.  A transaction is its payload (the     *)
(* engine never reads the signature).                                      *)
(***************************************************************************)
Payload(sender, round_count, transaction_type, value) == [sender |-> sender, round_count |-> round_count, transaction_type |-> transaction_type, value |-> value]

\* Counter(values).values(): how often each distinct element of the dict's values occurs
CounterOf(d) == [v \in {d[k] : k \in DOMAIN d} |-> Cardinality({k \in DOMAIN d : d[k] = v})]

SetMax(S) == CHOOSE m \in S : \A x \in S : x <= m

(***************************************************************************)
(* Blockchain.                                                             *)
(***************************************************************************)
Header(height, timestamp) == [height |-> height, timestamp |-> timestamp]
Block(header, transactions) == [header |-> header, transactions |-> transactions]

Blockchain_height(blocks) == Len(blocks)

\* add_block without the height check
Blockchain_add_block_unchecked(blocks, block) == [err |-> "ok", blocks |-> Append(blocks, block)]

Blockchain_add_block(blocks, block) ==
    LET expected_height == Blockchain_height(blocks) + 1
        actual_height == block.header.height
    IN  IF expected_height # actual_height
        THEN [err |-> "AddBlockError", blocks |-> blocks]
        ELSE [err |-> "ok", blocks |-> Append(blocks, block)]

(***************************************************************************)
(* BlockBuilder.                                                           *)
(***************************************************************************)
NoHeader == Header(0, NoTime)
BlockBuilder_reset == [header |-> NoHeader, transactions |-> <<>>]
BlockBuilder_set_header(bb, header) == [bb EXCEPT !.header = header]
BlockBuilder_add_transaction(bb, tx) == [bb EXCEPT !.transactions = Append(@, tx)]
BlockBuilder_get_block(bb) == Block(bb.header, bb.transactions)

(***************************************************************************)
(* StateDB.                                                                *)
(***************************************************************************)
StateDB_init(initial_period, initial_data) == [current_period_count |-> initial_period, data |-> [p \in {initial_period} |-> initial_data], round_count |-> ROUND_COUNT_DEFAULT, cross_period_persisted_keys |-> <<>>]

StateDB_get(db, key, default) == DictGet(DictGet(db.data, db.current_period_count, EmptyDict), key, default)

StateDB_update_current_period(db, kwargs) ==
    LET old == db.data[db.current_period_count]
        new == [k \in (DOMAIN old) \cup (DOMAIN kwargs) |-> IF k \in DOMAIN kwargs THEN kwargs[k] ELSE old[k]]
    IN  [db EXCEPT !.data[db.current_period_count] = new]

\* add_new_period that keeps, for the keys kwargs does not set, what the period already held
\* and the cross-period persisted keys of the period that was current
StateDB_add_new_period_carrying(db, new_period, kwargs) ==
    LET old == IF new_period \in DOMAIN db.data THEN db.data[new_period] ELSE EmptyDict
        last == IF db.current_period_count \in DOMAIN db.data THEN db.data[db.current_period_count] ELSE EmptyDict
        persisted == {db.cross_period_persisted_keys[i] : i \in DOMAIN db.cross_period_persisted_keys} \cap DOMAIN last
        new == [key \in (DOMAIN old) \cup persisted \cup (DOMAIN kwargs) |-> IF key \in DOMAIN kwargs THEN kwargs[key] ELSE IF key \in DOMAIN old THEN old[key] ELSE last[key]]
    IN  [db EXCEPT !.current_period_count = new_period, !.data = DictSet(db.data, new_period, new)]

StateDB_add_new_period(db, new_period, kwargs) == [db EXCEPT !.current_period_count = new_period, !.data = DictSet(db.data, new_period, kwargs)]

\* increment_round_count that leaves the counter alone
StateDB_increment_round_count_skipped(db) == db

StateDB_increment_round_count(db) == [db EXCEPT !.round_count = @ + 1]

\* sorted(keys): the keys in increasing order
RECURSIVE sorted(_)
sorted(keys) ==
    IF keys = {} THEN <<>>
    ELSE LET least == CHOOSE k \in keys : \A j \in keys : k <= j
         IN  <<least>> \o sorted(keys \ {least})

\* seq[-n:] for n >= 0; Python reads seq[-0:] as seq[0:], the whole list
slice_last(seq, n) ==
    IF n = 0 \/ n >= Len(seq) THEN seq ELSE SubSeq(seq, Len(seq) - n + 1, Len(seq))

\* cleanup that uses the depth it is given, without the floor MIN_HISTORY_DEPTH
StateDB_cleanup_no_floor(db, cleanup_history_depth) ==
    LET kept == slice_last(sorted(DOMAIN db.data), cleanup_history_depth)
    IN  [db EXCEPT !.data = [key \in {kept[i] : i \in 1..Len(kept)} |-> db.data[key]]]

StateDB_cleanup(db, cleanup_history_depth) ==
    LET depth == IF cleanup_history_depth > MIN_HISTORY_DEPTH THEN cleanup_history_depth ELSE MIN_HISTORY_DEPTH
        kept == slice_last(sorted(DOMAIN db.data), depth)
    IN  [db EXCEPT !.data = [key \in {kept[i] : i \in 1..Len(kept)} |-> db.data[key]]]

\* the period_count of update when it is None
NoPeriod == -1

\* BasePeriodState.update(period_count=None, **kwargs) / update(period_count=p, **kwargs)
BasePeriodState_update(db, period_count, kwargs) ==
    IF period_count = NoPeriod
    THEN StateDB_update_current_period(db, kwargs)
    ELSE StateDB_add_new_period(db, period_count, kwargs)

BasePeriodState_participants(db) == StateDB_get(db, "participants", {})
BasePeriodState_most_voted_keeper_address(db) == StateDB_get(db, "most_voted_keeper_address", None)
BasePeriodState_nb_participants(db) == Cardinality(BasePeriodState_participants(db))

(***************************************************************************)
(* TimeoutEvent and Timeouts.  heapq keeps the smallest TimeoutEvent at    *)
(* _heap[0]; the queue is kept here as the sequence of its entries in      *)
(* increasing order, so that heap[1] is heapq's root.  _entry_finder holds *)
(* exactly the entries of the heap, keyed by entry_count.                  *)
(***************************************************************************)
TimeoutEvent(deadline, entry_count, event) == [deadline |-> deadline, entry_count |-> entry_count, event |-> event, cancelled |-> FALSE]

\* the order of insertion alone
TimeoutEvent_lt_insertion(a, b) == a.entry_count < b.entry_count

\* @dataclass(order=True): compares (deadline, entry_count); event and cancelled have compare=False
TimeoutEvent_lt(a, b) == a.deadline < b.deadline \/ (a.deadline = b.deadline /\ a.entry_count < b.entry_count)

Timeouts_init == [heap |-> <<>>, counter |-> 0]

Timeouts_size(t) == Len(t.heap)

\* heapq.heappush
heappush(heap, item) ==
    LET before == SelectSeq(heap, LAMBDA e : ~TimeoutEvent_lt(item, e))
        after == SelectSeq(heap, LAMBDA e : TimeoutEvent_lt(item, e))
    IN  before \o <<item>> \o after

\* heapq.heappop: the sequence after the root is removed
heappop(heap) == Tail(heap)

\* the new queue; the id handed out is t.counter
Timeouts_add_timeout(t, deadline, event) == [heap |-> heappush(t.heap, TimeoutEvent(deadline, t.counter, event)), counter |-> t.counter + 1]

\* cancel_timeout that takes the entry out of the heap
Timeouts_cancel_timeout_eager(t, entry_count) == [t EXCEPT !.heap = SelectSeq(t.heap, LAMBDA e : e.entry_count # entry_count)]

Timeouts_cancel_timeout(t, entry_count) == [t EXCEPT !.heap = [i \in DOMAIN t.heap |-> IF t.heap[i].entry_count = entry_count THEN [t.heap[i] EXCEPT !.cancelled = TRUE] ELSE t.heap[i]]]

Timeouts_get_earliest_timeout(t) == t.heap[1]

Timeouts_pop_timeout(t) == [t EXCEPT !.heap = heappop(t.heap)]

RECURSIVE Timeouts_pop_earliest_cancelled_timeouts(_)
Timeouts_pop_earliest_cancelled_timeouts(t) ==
    IF Timeouts_size(t) = 0 THEN t
    ELSE IF t.heap[1].cancelled THEN Timeouts_pop_earliest_cancelled_timeouts(Timeouts_pop_timeout(t))
    ELSE t

(***************************************************************************)
(* The application the engine runs: three round classes,                   *)
(*   R1 (CollectSameUntilThreshold, payloads of kind A), the initial round,*)
(*   R2 (CollectSameUntilThreshold, payloads of kind B),                   *)
(*   FinalRound (Degenerate), the only final state,                        *)
(* and two timeout events, T (10 seconds) out of R1 and T2 (2 seconds) out *)
(* of R2.  The event "none" has no entry in the transition function: it is *)
(* a dead end.  A second application has the single round class Z1         *)
(* (CollectSameUntilThreshold, payloads of kind Z) and the timeout event   *)
(* TZ, of 0 seconds, from Z1 to Z1.                                        *)
(***************************************************************************)
initial_round_cls == "R1"
final_states == {"FinalRound"}
event_to_timeout == [e \in {"T", "T2", "TZ"} |-> IF e = "T" THEN 10 ELSE IF e = "T2" THEN 2 ELSE 0]

\* transition_function[cls] as the ordered list of its (event, next round class) items
transition_function(cls) ==
    CASE cls = "R1" -> << <<"done", "R2">>, <<"no_majority", "R1">>, <<"T", "R2">> >>
      [] cls = "R2" -> << <<"done", "FinalRound">>, <<"no_majority", "R1">>, <<"T2", "R2">> >>
      [] cls = "Z1" -> << <<"TZ", "Z1">> >>
      [] OTHER -> <<>>

\* transition_function[cls].get(event, None)
transition_function_get(cls, event) ==
    LET items == transition_function(cls)
        hits == {i \in DOMAIN items : items[i][1] = event}
    IN  IF hits = {} THEN None ELSE items[CHOOSE i \in hits : TRUE][2]

\* class attributes of the round classes
RoundTemplate(cls) ==
    CASE cls \in {"R1", "R2", "Z1"} -> "CollectSameUntilThresholdRound"
      [] cls = "D1" -> "CollectDifferentUntilThresholdRound"
      [] cls = "K1" -> "OnlyKeeperSendsRound"
      [] cls = "V1" -> "VotingRound"
      [] OTHER -> "DegenerateRound"

allowed_tx_type(cls) ==
    CASE cls = "R1" -> "A"
      [] cls = "R2" -> "B"
      [] cls = "D1" -> "D"
      [] cls = "K1" -> "K"
      [] cls = "V1" -> "V"
      [] cls = "Z1" -> "Z"
      [] OTHER -> None

collection_key(cls) == IF cls = "R1" THEN "participant_to_a" ELSE IF cls = "V1" THEN "participant_to_votes" ELSE "participant_to_b"
selection_key(cls) == IF cls = "R1" THEN "most_voted_a" ELSE "most_voted_b"
required_block_confirmations(cls) == IF cls = "D1" THEN 2 ELSE 0
payload_key(cls) == "keeper_payload"

(***************************************************************************)
(* AbstractRound: a round instance is                                      *)
(* [cls, block_confirmations, previous_round_tx_type, collection,          *)
(* period_state]; its period_state is a view of the StateDB its AbciApp    *)
(* owns, passed as db: the field holds the name of the view, the           *)
(* application's initial state for a round built directly.                 *)
(***************************************************************************)
\* AbciApp._initial_state
AbciApp_initial_state == "initial_state"

AbstractRound_init(cls, previous_round_tx_type) == [cls |-> cls, block_confirmations |-> 0, previous_round_tx_type |-> previous_round_tx_type, collection |-> EmptyDict, period_state |-> AbciApp_initial_state]

\* OnlyKeeperSendsRound.__init__: the two fields it adds
OnlyKeeperSendsRound_init(cls, previous_round_tx_type) == [cls |-> cls, block_confirmations |-> 0, previous_round_tx_type |-> previous_round_tx_type, collection |-> EmptyDict, period_state |-> AbciApp_initial_state, keeper_sent_payload |-> FALSE, keeper_payload |-> None]

\* round_cls(state, consensus_params, previous_round_tx_type)
Round_init(cls, previous_round_tx_type) ==
    IF RoundTemplate(cls) = "OnlyKeeperSendsRound" THEN OnlyKeeperSendsRound_init(cls, previous_round_tx_type)
    ELSE AbstractRound_init(cls, previous_round_tx_type)

\* AbciApp._current_round is None
NoRound == AbstractRound_init(None, None)

\* check_allowed_tx_type without the test on the previous round's transaction type
check_allowed_tx_type_no_late(round, tx) ==
    IF allowed_tx_type(round.cls) = None THEN "TransactionTypeNotRecognizedError"
    ELSE IF tx.transaction_type # allowed_tx_type(round.cls) THEN "TransactionTypeNotRecognizedError"
    ELSE "ok"

\* check_allowed_tx_type without the test on a round that allows no transaction type
check_allowed_tx_type_none_allowed(round, tx) ==
    IF round.previous_round_tx_type # None /\ tx.transaction_type = round.previous_round_tx_type THEN "LateArrivingTransaction"
    ELSE IF tx.transaction_type # allowed_tx_type(round.cls) THEN "TransactionTypeNotRecognizedError"
    ELSE "ok"

check_allowed_tx_type(round, tx) ==
    IF allowed_tx_type(round.cls) = None THEN "TransactionTypeNotRecognizedError"
    ELSE IF round.previous_round_tx_type # None /\ tx.transaction_type = round.previous_round_tx_type THEN "LateArrivingTransaction"
    ELSE IF tx.transaction_type # allowed_tx_type(round.cls) THEN "TransactionTypeNotRecognizedError"
    ELSE "ok"

\* the checks of CollectionRound without the one on the senders already collected
CollectionRound_payload_guard_resend(round, db, payload) ==
    IF payload.round_count # db.round_count THEN "round_count"
    ELSE IF payload.sender \notin BasePeriodState_participants(db) THEN "participants"
    ELSE "ok"

\* the checks of CollectionRound without the one on round_count
CollectionRound_payload_guard_any_round_count(round, db, payload) ==
    IF payload.sender \notin BasePeriodState_participants(db) THEN "participants"
    ELSE IF payload.sender \in DOMAIN round.collection THEN "already_sent"
    ELSE "ok"

\* the checks CollectionRound.check_payload and process_payload share; "ok" or the failed check
CollectionRound_payload_guard(round, db, payload) ==
    IF payload.round_count # db.round_count THEN "round_count"
    ELSE IF payload.sender \notin BasePeriodState_participants(db) THEN "participants"
    ELSE IF payload.sender \in DOMAIN round.collection THEN "already_sent"
    ELSE "ok"

CollectionRound_check_payload(round, db, payload) == IF CollectionRound_payload_guard(round, db, payload) # "ok" THEN "TransactionNotValidError" ELSE "ok"

CollectionRound_process_payload(round, db, payload) ==
    IF CollectionRound_payload_guard(round, db, payload) # "ok"
    THEN [err |-> "ABCIAppInternalError", round |-> round]
    ELSE [err |-> "ok", round |-> [round EXCEPT !.collection = DictSet(@, payload.sender, payload)]]

\* raise exception_cls iff nb_remaining_votes + largest_nb_votes < threshold
\* check_majority_possible that also fails when the threshold can be reached exactly
check_majority_possible_strict(votes, nb) ==
    IF ~(nb > 0 /\ Cardinality(DOMAIN votes) <= nb) THEN "ABCIAppInternalError"
    ELSE IF Cardinality(DOMAIN votes) = 0 THEN "ok"
    ELSE LET vote_count == CounterOf(votes)
             largest_nb_votes == SetMax({vote_count[v] : v \in DOMAIN vote_count})
             nb_remaining_votes == nb - Cardinality(DOMAIN votes)
         IN  IF nb_remaining_votes + largest_nb_votes <= consensus_threshold(nb) THEN "ABCIAppException" ELSE "ok"

check_majority_possible(votes, nb) ==
    IF ~(nb > 0 /\ Cardinality(DOMAIN votes) <= nb) THEN "ABCIAppInternalError"
    ELSE IF Cardinality(DOMAIN votes) = 0 THEN "ok"
    ELSE LET vote_count == CounterOf(votes)
             largest_nb_votes == SetMax({vote_count[v] : v \in DOMAIN vote_count})
             nb_votes_received == Cardinality(DOMAIN votes)
             nb_remaining_votes == nb - nb_votes_received
             threshold == consensus_threshold(nb)
         IN  IF nb_remaining_votes + largest_nb_votes < threshold THEN "ABCIAppException" ELSE "ok"

is_majority_possible(votes, nb) == check_majority_possible(votes, nb) = "ok"

\* check_majority_possible_with_new_voter that checks the votes without the new one
check_majority_possible_with_new_voter_unadded(votes, new_voter, new_vote, nb) ==
    IF new_voter \in DOMAIN votes THEN "ABCIAppInternalError"
    ELSE IF ~(Cardinality(DOMAIN votes) <= nb - 1) THEN "ABCIAppInternalError"
    ELSE check_majority_possible(votes, nb)

check_majority_possible_with_new_voter(votes, new_voter, new_vote, nb) ==
    IF new_voter \in DOMAIN votes THEN "ABCIAppInternalError"
    ELSE IF ~(Cardinality(DOMAIN votes) <= nb - 1) THEN "ABCIAppInternalError"
    ELSE check_majority_possible(DictSet(votes, new_voter, new_vote), nb)

\* CollectionRound.payloads_count: Counter of the payload_attribute of the collected payloads
payloads_count(round) == CounterOf([s \in DOMAIN round.collection |-> round.collection[s].value])

threshold_reached(round, max_participants) == \E v \in DOMAIN payloads_count(round) : payloads_count(round)[v] >= consensus_threshold(max_participants)

\* payloads_count.most_common()[0][0]; read only when the threshold is reached
most_voted_payload(round) ==
    LET counts == payloads_count(round)
    IN  CHOOSE v \in DOMAIN counts : \A w \in DOMAIN counts : counts[w] <= counts[v]

\* end_block returns None (event = None) or (state, event); db is the StateDB after the call
CollectSameUntilThresholdRound_end_block(round, db, max_participants) ==
    IF threshold_reached(round, max_participants) /\ most_voted_payload(round) # None
    THEN [err |-> "ok", event |-> "done", round |-> round, db |-> BasePeriodState_update(db, NoPeriod, [k \in {collection_key(round.cls), selection_key(round.cls)} |-> IF k = collection_key(round.cls) THEN round.collection ELSE most_voted_payload(round)])]
    ELSE IF threshold_reached(round, max_participants) /\ most_voted_payload(round) = None
    THEN [err |-> "ok", event |-> "none", round |-> round, db |-> db]
    ELSE IF ~is_majority_possible(round.collection, BasePeriodState_nb_participants(db))
    THEN [err |-> "ok", event |-> "no_majority", round |-> round, db |-> db]
    ELSE [err |-> "ok", event |-> None, round |-> round, db |-> db]

\* the checks of OnlyKeeperSendsRound without the one on keeper_sent_payload
OnlyKeeperSendsRound_payload_guard_resend(round, db, payload) ==
    IF payload.round_count # db.round_count THEN "round_count"
    ELSE IF payload.sender \notin BasePeriodState_participants(db) THEN "participants"
    ELSE IF payload.sender # BasePeriodState_most_voted_keeper_address(db) THEN "keeper"
    ELSE "ok"

\* the checks OnlyKeeperSendsRound.check_payload and process_payload share
OnlyKeeperSendsRound_payload_guard(round, db, payload) ==
    IF payload.round_count # db.round_count THEN "round_count"
    ELSE IF payload.sender \notin BasePeriodState_participants(db) THEN "participants"
    ELSE IF payload.sender # BasePeriodState_most_voted_keeper_address(db) THEN "keeper"
    ELSE IF round.keeper_sent_payload THEN "already_sent"
    ELSE "ok"

OnlyKeeperSendsRound_check_payload(round, db, payload) == IF OnlyKeeperSendsRound_payload_guard(round, db, payload) # "ok" THEN "TransactionNotValidError" ELSE "ok"

OnlyKeeperSendsRound_process_payload(round, db, payload) ==
    IF OnlyKeeperSendsRound_payload_guard(round, db, payload) # "ok"
    THEN [err |-> "ABCIAppInternalError", round |-> round]
    ELSE [err |-> "ok", round |-> [round EXCEPT !.keeper_payload = payload.value, !.keeper_sent_payload = TRUE]]

\* end_block of OnlyKeeperSends that stores the keeper's payload also when it is None
OnlyKeeperSendsRound_end_block_stores_none(round, db) ==
    IF round.keeper_sent_payload /\ round.keeper_payload # None
    THEN [err |-> "ok", event |-> "done", round |-> round, db |-> BasePeriodState_update(db, NoPeriod, [k \in {payload_key(round.cls)} |-> round.keeper_payload])]
    ELSE IF round.keeper_sent_payload /\ round.keeper_payload = None
    THEN [err |-> "ok", event |-> "fail", round |-> round, db |-> BasePeriodState_update(db, NoPeriod, [k \in {payload_key(round.cls)} |-> round.keeper_payload])]
    ELSE [err |-> "ok", event |-> None, round |-> round, db |-> db]

OnlyKeeperSendsRound_end_block(round, db) ==
    IF round.keeper_sent_payload /\ round.keeper_payload # None
    THEN [err |-> "ok", event |-> "done", round |-> round, db |-> BasePeriodState_update(db, NoPeriod, [k \in {payload_key(round.cls)} |-> round.keeper_payload])]
    ELSE IF round.keeper_sent_payload /\ round.keeper_payload = None
    THEN [err |-> "ok", event |-> "fail", round |-> round, db |-> db]
    ELSE [err |-> "ok", event |-> None, round |-> round, db |-> db]

collection_threshold_reached(round, max_participants) == Cardinality(DOMAIN round.collection) >= consensus_threshold(max_participants)

CollectDifferentUntilThresholdRound_end_block(round, db, max_participants) ==
    LET reached == collection_threshold_reached(round, max_participants)
        counted == IF reached THEN [round EXCEPT !.block_confirmations = @ + 1] ELSE round
    IN  IF reached /\ counted.block_confirmations > required_block_confirmations(round.cls)
        THEN [err |-> "ok", event |-> "done", round |-> counted, db |-> BasePeriodState_update(db, NoPeriod, [k \in {selection_key(round.cls), collection_key(round.cls)} |-> IF k = selection_key(round.cls) THEN DOMAIN round.collection ELSE round.collection])]
        ELSE IF ~is_majority_possible(round.collection, BasePeriodState_nb_participants(db))
        THEN [err |-> "ok", event |-> "no_majority", round |-> counted, db |-> db]
        ELSE [err |-> "ok", event |-> None, round |-> counted, db |-> db]

\* Counter(payload.vote for payload in self.collection.values()); a Counter answers 0
\* for a vote it has not counted
vote_count(round, vote) == DictGet(CounterOf([s \in DOMAIN round.collection |-> round.collection[s].value]), vote, 0)

positive_vote_threshold_reached(round, max_participants) == vote_count(round, "True") >= consensus_threshold(max_participants)
negative_vote_threshold_reached(round, max_participants) == vote_count(round, "False") >= consensus_threshold(max_participants)
none_vote_threshold_reached(round, max_participants) == vote_count(round, None) >= consensus_threshold(max_participants)

VotingRound_end_block(round, db, max_participants) ==
    IF positive_vote_threshold_reached(round, max_participants)
    THEN [err |-> "ok", event |-> "done", round |-> round, db |-> BasePeriodState_update(db, NoPeriod, [k \in {collection_key(round.cls)} |-> round.collection])]
    ELSE IF negative_vote_threshold_reached(round, max_participants)
    THEN [err |-> "ok", event |-> "negative", round |-> round, db |-> db]
    ELSE IF none_vote_threshold_reached(round, max_participants)
    THEN [err |-> "ok", event |-> "none", round |-> round, db |-> db]
    ELSE IF ~is_majority_possible(round.collection, BasePeriodState_nb_participants(db))
    THEN [err |-> "ok", event |-> "no_majority", round |-> round, db |-> db]
    ELSE [err |-> "ok", event |-> None, round |-> round, db |-> db]

\* end_block of a Degenerate round that returns None
DegenerateRound_end_block_returns_none(round, db) == [err |-> "ok", event |-> None, round |-> round, db |-> db]

DegenerateRound_end_block(round, db) == [err |-> "NotImplementedError", event |-> None, round |-> round, db |-> db]

\* dispatch on the class of the round instance
Round_check_payload(round, db, payload) ==
    IF RoundTemplate(round.cls) = "DegenerateRound" THEN "NotImplementedError"
    ELSE IF RoundTemplate(round.cls) = "OnlyKeeperSendsRound" THEN OnlyKeeperSendsRound_check_payload(round, db, payload)
    ELSE CollectionRound_check_payload(round, db, payload)

Round_process_payload(round, db, payload) ==
    IF RoundTemplate(round.cls) = "DegenerateRound" THEN [err |-> "NotImplementedError", round |-> round]
    ELSE IF RoundTemplate(round.cls) = "OnlyKeeperSendsRound" THEN OnlyKeeperSendsRound_process_payload(round, db, payload)
    ELSE CollectionRound_process_payload(round, db, payload)

Round_end_block(round, db, max_participants) ==
    IF RoundTemplate(round.cls) = "DegenerateRound" THEN DegenerateRound_end_block(round, db)
    ELSE IF RoundTemplate(round.cls) = "OnlyKeeperSendsRound" THEN OnlyKeeperSendsRound_end_block(round, db)
    ELSE IF RoundTemplate(round.cls) = "CollectDifferentUntilThresholdRound" THEN CollectDifferentUntilThresholdRound_end_block(round, db, max_participants)
    ELSE IF RoundTemplate(round.cls) = "VotingRound" THEN VotingRound_end_block(round, db, max_participants)
    ELSE CollectSameUntilThresholdRound_end_block(round, db, max_participants)

AbstractRound_check_transaction(round, db, tx) ==
    IF check_allowed_tx_type(round, tx) # "ok" THEN check_allowed_tx_type(round, tx)
    ELSE Round_check_payload(round, db, tx)

AbstractRound_process_transaction(round, db, tx) ==
    IF check_allowed_tx_type(round, tx) # "ok" THEN [err |-> check_allowed_tx_type(round, tx), round |-> round]
    ELSE Round_process_payload(round, db, tx)

(***************************************************************************)
(* AbciApp.  round_results holds period-state views, all over the one      *)
(* StateDB (db): a view is modelled by the name of its class.              *)
(***************************************************************************)
AbciApp_init(db, max_participants) == [consensus_params |-> [max_participants |-> max_participants], db |-> db, current_round_cls |-> None, current_round |-> NoRound, last_round |-> NoRound, previous_rounds |-> <<>>, current_round_height |-> 0, round_results |-> <<>>, last_timestamp |-> NoTime, current_timeout_entries |-> <<>>, timeouts |-> Timeouts_init]

AbciApp_is_finished(app) == app.current_round = NoRound

\* for entry_id in self._current_timeout_entries: self._timeouts.cancel_timeout(entry_id)
RECURSIVE cancel_current_timeout_entries(_, _)
cancel_current_timeout_entries(t, entries) ==
    IF entries = <<>> THEN t
    ELSE cancel_current_timeout_entries(Timeouts_cancel_timeout(t, Head(entries)), Tail(entries))

\* for event in next_events: arm the timeout of every event that has one, when a timestamp is known
\* the loop of _schedule_round without the test on last_timestamp: the deadline is
\* computed from the missing timestamp as from time 0
RECURSIVE schedule_timeouts_from_zero(_, _, _)
schedule_timeouts_from_zero(st, items, last_timestamp) ==
    IF items = <<>> THEN st
    ELSE IF Head(items)[1] \in DOMAIN event_to_timeout
    THEN schedule_timeouts_from_zero([timeouts |-> Timeouts_add_timeout(st.timeouts, (IF last_timestamp = NoTime THEN 0 ELSE last_timestamp) + event_to_timeout[Head(items)[1]], Head(items)[1]), entries |-> Append(st.entries, st.timeouts.counter)], Tail(items), last_timestamp)
    ELSE schedule_timeouts_from_zero(st, Tail(items), last_timestamp)

RECURSIVE schedule_timeouts(_, _, _)
schedule_timeouts(st, items, last_timestamp) ==
    IF items = <<>> THEN st
    ELSE IF Head(items)[1] \in DOMAIN event_to_timeout /\ last_timestamp # NoTime
    THEN schedule_timeouts([timeouts |-> Timeouts_add_timeout(st.timeouts, last_timestamp + event_to_timeout[Head(items)[1]], Head(items)[1]), entries |-> Append(st.entries, st.timeouts.counter)], Tail(items), last_timestamp)
    ELSE schedule_timeouts(st, Tail(items), last_timestamp)

\* _schedule_round that passes the outgoing round's allowed type whatever the new one is
AbciApp_schedule_round_always_previous(app, round_cls) ==
    LET cancelled == cancel_current_timeout_entries(app.timeouts, app.current_timeout_entries)
        armed == schedule_timeouts([timeouts |-> cancelled, entries |-> <<>>], transition_function(round_cls), app.last_timestamp)
        last_result == IF Len(app.round_results) > 0 THEN app.round_results[Len(app.round_results)] ELSE AbciApp_initial_state
        last_round == app.current_round
        previous_round_tx_type == IF last_round # NoRound THEN allowed_tx_type(last_round.cls) ELSE None
    IN  [app EXCEPT !.timeouts = armed.timeouts, !.current_timeout_entries = armed.entries, !.last_round = last_round, !.current_round_cls = round_cls, !.current_round = [Round_init(round_cls, previous_round_tx_type) EXCEPT !.period_state = last_result], !.db = StateDB_increment_round_count(app.db)]

\* _schedule_round without the loop that cancels the entries of the outgoing round
AbciApp_schedule_round_no_cancel(app, round_cls) ==
    LET armed == schedule_timeouts([timeouts |-> app.timeouts, entries |-> <<>>], transition_function(round_cls), app.last_timestamp)
        last_result == IF Len(app.round_results) > 0 THEN app.round_results[Len(app.round_results)] ELSE AbciApp_initial_state
        last_round == app.current_round
        previous_round_tx_type == IF last_round # NoRound /\ allowed_tx_type(last_round.cls) # allowed_tx_type(round_cls) THEN allowed_tx_type(last_round.cls) ELSE None
    IN  [app EXCEPT !.timeouts = armed.timeouts, !.current_timeout_entries = armed.entries, !.last_round = last_round, !.current_round_cls = round_cls, !.current_round = [Round_init(round_cls, previous_round_tx_type) EXCEPT !.period_state = last_result], !.db = StateDB_increment_round_count(app.db)]

AbciApp_schedule_round(app, round_cls) ==
    LET cancelled == cancel_current_timeout_entries(app.timeouts, app.current_timeout_entries)
        armed == schedule_timeouts([timeouts |-> cancelled, entries |-> <<>>], transition_function(round_cls), app.last_timestamp)
        last_result == IF Len(app.round_results) > 0 THEN app.round_results[Len(app.round_results)] ELSE AbciApp_initial_state
        last_round == app.current_round
        previous_round_tx_type == IF last_round # NoRound /\ allowed_tx_type(last_round.cls) # allowed_tx_type(round_cls) THEN allowed_tx_type(last_round.cls) ELSE None
    IN  [app EXCEPT !.timeouts = armed.timeouts, !.current_timeout_entries = armed.entries, !.last_round = last_round, !.current_round_cls = round_cls, !.current_round = [Round_init(round_cls, previous_round_tx_type) EXCEPT !.period_state = last_result], !.db = StateDB_increment_round_count(app.db)]

\* setup that takes time 0 as the last timestamp
AbciApp_setup_with_clock(app) == AbciApp_schedule_round([app EXCEPT !.last_timestamp = 0], initial_round_cls)

AbciApp_setup(app) == AbciApp_schedule_round(app, initial_round_cls)

\* process_event without the early return on a missing current round class
AbciApp_process_event_unguarded(app, event, result) ==
    LET next_round_cls == transition_function_get(app.current_round_cls, event)
        extended == [app EXCEPT !.previous_rounds = Append(@, app.current_round), !.current_round_height = @ + 1, !.round_results = Append(@, IF result # None THEN result ELSE app.current_round.period_state)]
    IN  IF next_round_cls # None
        THEN AbciApp_schedule_round(extended, next_round_cls)
        ELSE [extended EXCEPT !.current_round_cls = None, !.current_round = NoRound]

\* process_event that records the initial state when no result is passed
AbciApp_process_event_initial_state(app, event, result) ==
    IF app.current_round_cls = None THEN app
    ELSE LET next_round_cls == transition_function_get(app.current_round_cls, event)
             extended == [app EXCEPT !.previous_rounds = Append(@, app.current_round), !.current_round_height = @ + 1, !.round_results = Append(@, IF result # None THEN result ELSE AbciApp_initial_state)]
         IN  IF next_round_cls # None
             THEN AbciApp_schedule_round(extended, next_round_cls)
             ELSE [extended EXCEPT !.current_round_cls = None, !.current_round = NoRound]

\* result is a period-state view, or None
AbciApp_process_event(app, event, result) ==
    IF app.current_round_cls = None THEN app
    ELSE LET next_round_cls == transition_function_get(app.current_round_cls, event)
             extended == [app EXCEPT !.previous_rounds = Append(@, app.current_round), !.current_round_height = @ + 1, !.round_results = Append(@, IF result # None THEN result ELSE app.current_round.period_state)]
         IN  IF next_round_cls # None
             THEN AbciApp_schedule_round(extended, next_round_cls)
             ELSE [extended EXCEPT !.current_round_cls = None, !.current_round = NoRound]

\* the while loop of update_time with a strict comparison: earliest_deadline < timestamp
RECURSIVE update_time_loop_strict(_, _, _)
update_time_loop_strict(app, timestamp, fired) ==
    IF Timeouts_get_earliest_timeout(app.timeouts).deadline < timestamp
    THEN LET expired == Timeouts_get_earliest_timeout(app.timeouts)
             popped == [app EXCEPT !.timeouts = Timeouts_pop_timeout(@), !.last_timestamp = timestamp]
             processed == AbciApp_process_event(popped, expired.event, None)
             drained == [processed EXCEPT !.timeouts = Timeouts_pop_earliest_cancelled_timeouts(@)]
         IN  IF Timeouts_size(drained.timeouts) = 0
             THEN [app |-> [drained EXCEPT !.last_timestamp = timestamp], fired |-> Append(fired, expired)]
             ELSE update_time_loop_strict(drained, timestamp, Append(fired, expired))
    ELSE [app |-> [app EXCEPT !.last_timestamp = timestamp], fired |-> fired]

\* the while loop of update_time with the clock set to the expired deadline before the
\* timeout event is processed
RECURSIVE update_time_loop_expired_deadline(_, _, _)
update_time_loop_expired_deadline(app, timestamp, fired) ==
    IF Timeouts_get_earliest_timeout(app.timeouts).deadline <= timestamp
    THEN LET expired == Timeouts_get_earliest_timeout(app.timeouts)
             popped == [app EXCEPT !.timeouts = Timeouts_pop_timeout(@), !.last_timestamp = expired.deadline]
             processed == AbciApp_process_event(popped, expired.event, None)
             drained == [processed EXCEPT !.timeouts = Timeouts_pop_earliest_cancelled_timeouts(@)]
         IN  IF Timeouts_size(drained.timeouts) = 0
             THEN [app |-> [drained EXCEPT !.last_timestamp = timestamp], fired |-> Append(fired, expired)]
             ELSE update_time_loop_expired_deadline(drained, timestamp, Append(fired, expired))
    ELSE [app |-> [app EXCEPT !.last_timestamp = timestamp], fired |-> fired]

\* the while loop of update_time, entered with a non-empty heap whose root is not cancelled;
\* fired lists the entries popped and passed to process_event, in order
RECURSIVE update_time_loop(_, _, _)
update_time_loop(app, timestamp, fired) ==
    IF Timeouts_get_earliest_timeout(app.timeouts).deadline <= timestamp
    THEN LET expired == Timeouts_get_earliest_timeout(app.timeouts)
             popped == [app EXCEPT !.timeouts = Timeouts_pop_timeout(@), !.last_timestamp = timestamp]
             processed == AbciApp_process_event(popped, expired.event, None)
             drained == [processed EXCEPT !.timeouts = Timeouts_pop_earliest_cancelled_timeouts(@)]
         IN  IF Timeouts_size(drained.timeouts) = 0
             THEN [app |-> [drained EXCEPT !.last_timestamp = timestamp], fired |-> Append(fired, expired)]
             ELSE update_time_loop(drained, timestamp, Append(fired, expired))
    ELSE [app |-> [app EXCEPT !.last_timestamp = timestamp], fired |-> fired]

\* one pass of the while loop of update_time with the clock set to the expired deadline
\* before the timeout event is processed
update_time_iteration_expired_deadline(app, timestamp) ==
    IF Timeouts_get_earliest_timeout(app.timeouts).deadline <= timestamp
    THEN LET expired == Timeouts_get_earliest_timeout(app.timeouts)
             popped == [app EXCEPT !.timeouts = Timeouts_pop_timeout(@), !.last_timestamp = expired.deadline]
             processed == AbciApp_process_event(popped, expired.event, None)
             drained == [processed EXCEPT !.timeouts = Timeouts_pop_earliest_cancelled_timeouts(@)]
         IN  IF Timeouts_size(drained.timeouts) = 0
             THEN [app |-> [drained EXCEPT !.last_timestamp = timestamp], fired |-> <<expired>>, in_loop |-> FALSE]
             ELSE [app |-> drained, fired |-> <<expired>>, in_loop |-> TRUE]
    ELSE [app |-> [app EXCEPT !.last_timestamp = timestamp], fired |-> <<>>, in_loop |-> FALSE]

\* one pass of the while loop of update_time: the test of the condition and, when it holds,
\* the body; in_loop tells whether the condition is tested again
update_time_iteration(app, timestamp) ==
    IF Timeouts_get_earliest_timeout(app.timeouts).deadline <= timestamp
    THEN LET expired == Timeouts_get_earliest_timeout(app.timeouts)
             popped == [app EXCEPT !.timeouts = Timeouts_pop_timeout(@), !.last_timestamp = timestamp]
             processed == AbciApp_process_event(popped, expired.event, None)
             drained == [processed EXCEPT !.timeouts = Timeouts_pop_earliest_cancelled_timeouts(@)]
         IN  IF Timeouts_size(drained.timeouts) = 0
             THEN [app |-> [drained EXCEPT !.last_timestamp = timestamp], fired |-> <<expired>>, in_loop |-> FALSE]
             ELSE [app |-> drained, fired |-> <<expired>>, in_loop |-> TRUE]
    ELSE [app |-> [app EXCEPT !.last_timestamp = timestamp], fired |-> <<>>, in_loop |-> FALSE]

\* update_time up to the while loop: in_loop tells whether the loop is entered
update_time_enter(app, timestamp) ==
    LET drained == [app EXCEPT !.timeouts = Timeouts_pop_earliest_cancelled_timeouts(@)]
    IN  IF Timeouts_size(drained.timeouts) = 0
        THEN [app |-> [drained EXCEPT !.last_timestamp = timestamp], fired |-> <<>>, in_loop |-> FALSE]
        ELSE [app |-> drained, fired |-> <<>>, in_loop |-> TRUE]

AbciApp_update_time(app, timestamp) ==
    LET drained == [app EXCEPT !.timeouts = Timeouts_pop_earliest_cancelled_timeouts(@)]
    IN  IF Timeouts_size(drained.timeouts) = 0
        THEN [app |-> [drained EXCEPT !.last_timestamp = timestamp], fired |-> <<>>]
        ELSE update_time_loop(drained, timestamp, <<>>)

\* cleanup that truncates previous_rounds and the database but not round_results
AbciApp_cleanup_rounds_only(app, cleanup_history_depth) ==
    IF Len(app.round_results) # Len(app.previous_rounds) THEN [app |-> app, err |-> "ABCIAppInternalError"]
    ELSE LET depth == IF cleanup_history_depth > MIN_HISTORY_DEPTH THEN cleanup_history_depth ELSE MIN_HISTORY_DEPTH
         IN  [app |-> [app EXCEPT !.previous_rounds = slice_last(@, depth), !.db = StateDB_cleanup(@, depth)], err |-> "ok"]

\* cleanup that uses the depth it is given, without the floor MIN_HISTORY_DEPTH
AbciApp_cleanup_no_floor(app, cleanup_history_depth) ==
    IF Len(app.round_results) # Len(app.previous_rounds) THEN [app |-> app, err |-> "ABCIAppInternalError"]
    ELSE [app |-> [app EXCEPT !.previous_rounds = slice_last(@, cleanup_history_depth), !.round_results = slice_last(@, cleanup_history_depth), !.db = StateDB_cleanup(@, cleanup_history_depth)], err |-> "ok"]

AbciApp_cleanup(app, cleanup_history_depth) ==
    IF Len(app.round_results) # Len(app.previous_rounds) THEN [app |-> app, err |-> "ABCIAppInternalError"]
    ELSE LET depth == IF cleanup_history_depth > MIN_HISTORY_DEPTH THEN cleanup_history_depth ELSE MIN_HISTORY_DEPTH
         IN  [app |-> [app EXCEPT !.previous_rounds = slice_last(@, depth), !.round_results = slice_last(@, depth), !.db = StateDB_cleanup(@, depth)], err |-> "ok"]

(***************************************************************************)
(* Period: the calls of the consensus layer.  Every call is one action; it *)
(* records in outcome the call, the exception it raised ("ok" when none),  *)
(* for begin_block and update_time the timeout entries fired, and for a    *)
(* round's end_block called directly the event it returned.                *)
(***************************************************************************)
Outcome(call, err, fired) == [call |-> call, err |-> err, fired |-> fired, event |-> None]

\* the agents of the period, and one address that is not a participant
Participants == {"a", "b"}
Outsider == "z"
\* values of the payload attribute
Values == {"X", None}
TxKinds == {"A", "B", "C"}

CoreInit ==
    /\ is_setup = FALSE
    /\ phase = WAITING_FOR_BEGIN_BLOCK
    /\ blockchain = <<>>
    /\ block_builder = BlockBuilder_reset
    /\ abci_app = AbciApp_init(StateDB_init(0, [participants |-> Participants]), Cardinality(Participants))
    /\ outcome = Outcome("init", "ok", <<>>)

MajorityIdle ==
    /\ votes_by_participant = EmptyDict
    /\ nb_participants = 0
    /\ majority_possible = None

Init == CoreInit /\ MajorityIdle

majority_vars == <<votes_by_participant, nb_participants, majority_possible>>

Period_setup ==
    /\ ~is_setup
    /\ is_setup' = TRUE
    /\ abci_app' = AbciApp_setup(abci_app)
    /\ outcome' = Outcome("setup", "ok", <<>>)
    /\ UNCHANGED <<phase, blockchain, block_builder, majority_vars>>

Period_begin_block(header) ==
    IF ~is_setup \/ AbciApp_is_finished(abci_app) \/ phase # WAITING_FOR_BEGIN_BLOCK
    THEN /\ outcome' = Outcome("begin_block", "ABCIAppInternalError", <<>>)
         /\ UNCHANGED <<is_setup, phase, blockchain, block_builder, abci_app, majority_vars>>
    ELSE /\ phase' = WAITING_FOR_DELIVER_TX
         /\ block_builder' = BlockBuilder_set_header(BlockBuilder_reset, header)
         /\ abci_app' = AbciApp_update_time(abci_app, header.timestamp).app
         /\ outcome' = Outcome("begin_block", "ok", AbciApp_update_time(abci_app, header.timestamp).fired)
         /\ UNCHANGED <<is_setup, blockchain, majority_vars>>

\* deliver_tx that adds the transaction to the block before it checks and processes it
Period_deliver_tx_adds_first(transaction) ==
    LET round == abci_app.current_round
        checked == AbstractRound_check_transaction(round, abci_app.db, transaction)
        processed == AbstractRound_process_transaction(round, abci_app.db, transaction)
        err == IF phase # WAITING_FOR_DELIVER_TX THEN "ABCIAppInternalError"
               ELSE IF AbciApp_is_finished(abci_app) THEN "ValueError"
               ELSE IF checked # "ok" THEN checked
               ELSE processed.err
    IN  /\ outcome' = Outcome("deliver_tx", err, <<>>)
        /\ abci_app' = IF err = "ok" THEN [abci_app EXCEPT !.current_round = processed.round] ELSE abci_app
        /\ block_builder' = IF phase = WAITING_FOR_DELIVER_TX THEN BlockBuilder_add_transaction(block_builder, transaction) ELSE block_builder
        /\ UNCHANGED <<is_setup, phase, blockchain, majority_vars>>

Period_deliver_tx(transaction) ==
    LET round == abci_app.current_round
        checked == AbstractRound_check_transaction(round, abci_app.db, transaction)
        processed == AbstractRound_process_transaction(round, abci_app.db, transaction)
        err == IF phase # WAITING_FOR_DELIVER_TX THEN "ABCIAppInternalError"
               ELSE IF AbciApp_is_finished(abci_app) THEN "ValueError"
               ELSE IF checked # "ok" THEN checked
               ELSE processed.err
    IN  IF err # "ok"
        THEN /\ outcome' = Outcome("deliver_tx", err, <<>>)
             \* an exception of process_transaction leaves the round as the call left it
             /\ abci_app' = IF phase = WAITING_FOR_DELIVER_TX /\ ~AbciApp_is_finished(abci_app) /\ checked = "ok"
                            THEN [abci_app EXCEPT !.current_round = processed.round] ELSE abci_app
             /\ UNCHANGED <<is_setup, phase, blockchain, block_builder, majority_vars>>
        ELSE /\ abci_app' = [abci_app EXCEPT !.current_round = processed.round]
             /\ block_builder' = BlockBuilder_add_transaction(block_builder, transaction)
             /\ outcome' = Outcome("deliver_tx", "ok", <<>>)
             /\ UNCHANGED <<is_setup, phase, blockchain, majority_vars>>

\* end_block without the test on the phase
Period_end_block_any_phase ==
    /\ phase' = WAITING_FOR_COMMIT
    /\ outcome' = Outcome("end_block", "ok", <<>>)
    /\ UNCHANGED <<is_setup, blockchain, block_builder, abci_app, majority_vars>>

Period_end_block ==
    IF phase # WAITING_FOR_DELIVER_TX
    THEN /\ outcome' = Outcome("end_block", "ABCIAppInternalError", <<>>)
         /\ UNCHANGED <<is_setup, phase, blockchain, block_builder, abci_app, majority_vars>>
    ELSE /\ phase' = WAITING_FOR_COMMIT
         /\ outcome' = Outcome("end_block", "ok", <<>>)
         /\ UNCHANGED <<is_setup, blockchain, block_builder, abci_app, majority_vars>>

\* Period._update_round: the app after the call, and the exception raised
Period_update_round(app) ==
    IF AbciApp_is_finished(app) THEN [err |-> "ValueError", app |-> app]
    ELSE LET result == Round_end_block(app.current_round, app.db, app.consensus_params.max_participants)
             ended == [app EXCEPT !.current_round = result.round, !.db = result.db]
         IN  IF result.err # "ok" THEN [err |-> result.err, app |-> ended]
             ELSE IF result.event = None THEN [err |-> "ok", app |-> ended]
             ELSE [err |-> "ok", app |-> AbciApp_process_event(ended, result.event, "BasePeriodState")]

\* commit that moves to WAITING_FOR_BEGIN_BLOCK in a finally clause
Period_commit_finally ==
    IF phase # WAITING_FOR_COMMIT
    THEN /\ outcome' = Outcome("commit", "ABCIAppInternalError", <<>>)
         /\ UNCHANGED <<is_setup, phase, blockchain, block_builder, abci_app, majority_vars>>
    ELSE LET added == Blockchain_add_block(blockchain, BlockBuilder_get_block(block_builder))
             updated == Period_update_round(abci_app)
         IN  /\ blockchain' = added.blocks
             /\ abci_app' = IF added.err # "ok" THEN abci_app ELSE updated.app
             /\ phase' = WAITING_FOR_BEGIN_BLOCK
             /\ outcome' = Outcome("commit", IF added.err # "ok" THEN added.err ELSE updated.err, <<>>)
             /\ UNCHANGED <<is_setup, block_builder, majority_vars>>

\* commit that updates the round before it adds the block to the chain
Period_commit_round_first ==
    IF phase # WAITING_FOR_COMMIT
    THEN /\ outcome' = Outcome("commit", "ABCIAppInternalError", <<>>)
         /\ UNCHANGED <<is_setup, phase, blockchain, block_builder, abci_app, majority_vars>>
    ELSE LET added == Blockchain_add_block(blockchain, BlockBuilder_get_block(block_builder))
             updated == Period_update_round(abci_app)
         IN  /\ blockchain' = added.blocks
             /\ abci_app' = updated.app
             /\ phase' = IF updated.err = "ok" /\ added.err = "ok" THEN WAITING_FOR_BEGIN_BLOCK ELSE phase
             /\ outcome' = Outcome("commit", IF updated.err # "ok" THEN updated.err ELSE added.err, <<>>)
             /\ UNCHANGED <<is_setup, block_builder, majority_vars>>

Period_commit ==
    IF phase # WAITING_FOR_COMMIT
    THEN /\ outcome' = Outcome("commit", "ABCIAppInternalError", <<>>)
         /\ UNCHANGED <<is_setup, phase, blockchain, block_builder, abci_app, majority_vars>>
    ELSE LET added == Blockchain_add_block(blockchain, BlockBuilder_get_block(block_builder))
             updated == Period_update_round(abci_app)
         IN  IF added.err # "ok"
             THEN /\ outcome' = Outcome("commit", added.err, <<>>)
                  /\ UNCHANGED <<is_setup, phase, blockchain, block_builder, abci_app, majority_vars>>
             ELSE /\ blockchain' = added.blocks
                  /\ abci_app' = updated.app
                  /\ phase' = IF updated.err = "ok" THEN WAITING_FOR_BEGIN_BLOCK ELSE phase
                  /\ outcome' = Outcome("commit", updated.err, <<>>)
                  /\ UNCHANGED <<is_setup, block_builder, majority_vars>>

Period_reset_blockchain(is_replay) ==
    /\ phase' = IF is_replay THEN WAITING_FOR_BEGIN_BLOCK ELSE phase
    /\ blockchain' = <<>>
    /\ outcome' = Outcome("reset_blockchain", "ok", <<>>)
    /\ UNCHANGED <<is_setup, block_builder, abci_app, majority_vars>>

\* the headers the consensus layer may send: block time strictly increases from block to
\* block (Tendermint's BFT time); the height is the one the chain expects or, as after a
\* reset of the consensus layer alone, another one
Headers == {Header(h, t) : h \in {Len(blockchain) + 1, Len(blockchain) + 2}, t \in {x \in Times : x > abci_app.last_timestamp}}

\* a transaction kind other than the one the current round allows
OtherKind == IF allowed_tx_type(abci_app.current_round.cls) = "A" THEN "B" ELSE "A"

\* the transactions offered to deliver_tx: every payload of a participant that has the kind
\* the current round allows (kind A when it allows none) and the running round count, and
\* one each from a non-participant, for the previous round count, of the other rounds'
\* kind, and of a kind no round accepts
Transactions ==
    LET rc == abci_app.db.round_count
        kind == IF OtherKind = "A" THEN "B" ELSE "A"
    IN  {Payload(s, rc, kind, v) : s \in Participants, v \in Values}
        \cup {Payload(Outsider, rc, kind, "X"), Payload("a", rc - 1, kind, "X"), Payload("a", rc, OtherKind, "X"), Payload("a", rc, "C", "X")}

Next ==
    \/ Period_setup
    \/ \E header \in Headers : Period_begin_block(header)
    \/ \E transaction \in Transactions : Period_deliver_tx(transaction)
    \/ Period_end_block
    \/ Period_commit

Spec == Init /\ [][Next]_vars

\* the same with Period.reset_blockchain, which the agent calls when it resets the
\* consensus layer
NextReplay == Next \/ \E is_replay \in BOOLEAN : Period_reset_blockchain(is_replay)

SpecReplay == Init /\ [][NextReplay]_vars

(***************************************************************************)
(* One round driven directly through AbciApp.check_transaction,            *)
(* AbciApp.process_transaction and current_round.end_block: the initial    *)
(* round R1 (CollectSameUntilThreshold) of an app of MaxVoters             *)
(* participants, right after setup.                                        *)
(***************************************************************************)
Addresses == <<"a", "b", "c", "d", "e", "f", "g">>
RoundParticipants == {Addresses[i] : i \in 1..MaxVoters}
RoundValues == {"X", "Y", None}

RoundInit ==
    /\ is_setup = TRUE
    /\ phase = WAITING_FOR_BEGIN_BLOCK
    /\ blockchain = <<>>
    /\ block_builder = BlockBuilder_reset
    /\ abci_app = AbciApp_setup(AbciApp_init(StateDB_init(0, [participants |-> RoundParticipants]), MaxVoters))
    /\ outcome = Outcome("setup", "ok", <<>>)
    /\ MajorityIdle

RoundTransactions ==
    LET rc == abci_app.db.round_count
    IN  {Payload(s, rc, "A", v) : s \in RoundParticipants, v \in RoundValues}
        \cup {Payload(Outsider, rc, "A", "X"), Payload("a", rc - 1, "A", "X"), Payload("a", rc, "B", "X")}

AbciApp_check_transaction(transaction) ==
    /\ outcome' = Outcome("check_transaction", AbstractRound_check_transaction(abci_app.current_round, abci_app.db, transaction), <<>>)
    /\ UNCHANGED <<is_setup, phase, blockchain, block_builder, abci_app, majority_vars>>

AbciApp_process_transaction(transaction) ==
    LET processed == AbstractRound_process_transaction(abci_app.current_round, abci_app.db, transaction)
    IN  /\ abci_app' = [abci_app EXCEPT !.current_round = processed.round]
        /\ outcome' = Outcome("process_transaction", processed.err, <<>>)
        /\ UNCHANGED <<is_setup, phase, blockchain, block_builder, majority_vars>>

CurrentRound_end_block ==
    LET result == Round_end_block(abci_app.current_round, abci_app.db, abci_app.consensus_params.max_participants)
    IN  /\ abci_app' = [abci_app EXCEPT !.current_round = result.round, !.db = result.db]
        /\ outcome' = [Outcome("end_block", result.err, <<>>) EXCEPT !.event = result.event]
        /\ UNCHANGED <<is_setup, phase, blockchain, block_builder, majority_vars>>

RoundNext ==
    \/ \E transaction \in RoundTransactions : AbciApp_check_transaction(transaction)
    \/ \E transaction \in RoundTransactions : AbciApp_process_transaction(transaction)
    \/ CurrentRound_end_block

SpecRound == RoundInit /\ [][RoundNext]_vars

(***************************************************************************)
(* The round templates driven directly through check_transaction,          *)
(* process_transaction and end_block of the round instance, in an app of   *)
(* MaxVoters participants whose keeper is "a": R2 as scheduled after R1    *)
(* (CollectSameUntilThreshold with a previous-round transaction type), D1  *)
(* (CollectDifferentUntilThreshold, two block confirmations required) and  *)
(* K1 (OnlyKeeperSends), D1 and K1 as the initial round of their app.      *)
(***************************************************************************)
TemplatesDB == StateDB_init(0, [participants |-> RoundParticipants, most_voted_keeper_address |-> "a"])

TemplatesInit ==
    /\ is_setup = TRUE
    /\ phase = WAITING_FOR_BEGIN_BLOCK
    /\ blockchain = <<>>
    /\ block_builder = BlockBuilder_reset
    /\ \/ abci_app = AbciApp_process_event(AbciApp_setup(AbciApp_init(TemplatesDB, MaxVoters)), "done", "BasePeriodState")
       \/ abci_app = AbciApp_schedule_round(AbciApp_init(TemplatesDB, MaxVoters), "D1")
       \/ abci_app = AbciApp_schedule_round(AbciApp_init(TemplatesDB, MaxVoters), "K1")
       \/ abci_app = AbciApp_schedule_round(AbciApp_init(TemplatesDB, MaxVoters), "FinalRound")
       \/ abci_app = AbciApp_schedule_round(AbciApp_init(TemplatesDB, MaxVoters), "V1")
    /\ outcome = Outcome("setup", "ok", <<>>)
    /\ MajorityIdle

\* the transactions offered to the round: of its kind, from every participant and from an
\* outsider, for the current round_count and for the one before; and of two other kinds,
\* "A" being the kind of the round before R2
TemplateTransactions ==
    LET rc == abci_app.db.round_count
        kind == allowed_tx_type(abci_app.current_round.cls)
        attributes == IF RoundTemplate(abci_app.current_round.cls) = "VotingRound" THEN {"True", "False", None} ELSE {"X", None}
    IN  {Payload(s, rc, kind, v) : s \in RoundParticipants \cup {Outsider}, v \in attributes}
        \cup {Payload(s, rc - 1, kind, "X") : s \in {"a", Outsider}}
        \cup {Payload("a", rc, k, "X") : k \in {"A", "C"}}

\* the call, the exception it raised and the transaction it was given
TxOutcome(call, err, transaction) == [call |-> call, err |-> err, fired |-> <<>>, event |-> None, transaction |-> transaction]

CurrentRound_check_transaction(transaction) ==
    /\ outcome' = TxOutcome("check_transaction", AbstractRound_check_transaction(abci_app.current_round, abci_app.db, transaction), transaction)
    /\ UNCHANGED <<is_setup, phase, blockchain, block_builder, abci_app, majority_vars>>

CurrentRound_process_transaction(transaction) ==
    LET processed == AbstractRound_process_transaction(abci_app.current_round, abci_app.db, transaction)
    IN  /\ abci_app' = [abci_app EXCEPT !.current_round = processed.round]
        /\ outcome' = TxOutcome("process_transaction", processed.err, transaction)
        /\ UNCHANGED <<is_setup, phase, blockchain, block_builder, majority_vars>>

TemplatesNext ==
    \/ \E transaction \in TemplateTransactions : CurrentRound_check_transaction(transaction)
    \/ \E transaction \in TemplateTransactions : CurrentRound_process_transaction(transaction)
    \/ abci_app.current_round.block_confirmations < MaxConfirmations /\ CurrentRound_end_block

SpecTemplates == TemplatesInit /\ [][TemplatesNext]_vars

(***************************************************************************)
(* AbstractRound.is_majority_possible as a function of its arguments: every *)
(* vote map of at most nb_participants voters, nb_participants in          *)
(* 1..MaxVoters.                                                           *)
(***************************************************************************)
VoteValues == {"X", "Y", "Z"}
Voters(n) == {Addresses[i] : i \in 1..n}
\* the dicts with keys in K and values in V
Dicts(K, V) == UNION {[D -> V] : D \in SUBSET K}

MajorityInit ==
    /\ CoreInit
    /\ nb_participants \in 1..MaxVoters
    /\ votes_by_participant \in Dicts(Voters(nb_participants), VoteValues)
    /\ majority_possible = None

AbstractRound_is_majority_possible ==
    /\ majority_possible = None
    /\ majority_possible' = IF is_majority_possible(votes_by_participant, nb_participants) THEN "True" ELSE "False"
    /\ UNCHANGED <<is_setup, phase, blockchain, block_builder, abci_app, outcome, votes_by_participant, nb_participants>>

\* what a call on a vote map returned: the exception of the check, or the event and the
\* selected value of the end_block of a round that collected the votes
VotesOutcome(call, err, new_voter, new_vote, event, selection) == [call |-> call, err |-> err, fired |-> <<>>, event |-> event, new_voter |-> new_voter, new_vote |-> new_vote, selection |-> selection]

AbstractRound_check_majority_possible_with_new_voter(new_voter, new_vote) ==
    /\ outcome' = VotesOutcome("check_majority_possible_with_new_voter", check_majority_possible_with_new_voter(votes_by_participant, new_voter, new_vote, nb_participants), new_voter, new_vote, None, None)
    /\ UNCHANGED <<is_setup, phase, blockchain, block_builder, abci_app, majority_vars>>

\* the round R1 after process_transaction of one payload per vote, in the order of the
\* addresses, the voters 1..i having been served
RECURSIVE deliver_votes(_, _, _, _)
deliver_votes(round, db, votes, i) ==
    IF i = 0 THEN round
    ELSE LET served == deliver_votes(round, db, votes, i - 1)
         IN  IF Addresses[i] \in DOMAIN votes
             THEN AbstractRound_process_transaction(served, db, Payload(Addresses[i], db.round_count, "A", votes[Addresses[i]])).round
             ELSE served

\* end_block of a CollectSameUntilThreshold round of nb_participants participants that
\* collected the votes
CollectSameUntilThresholdRound_votes_end_block ==
    LET db == StateDB_increment_round_count(StateDB_init(0, [participants |-> Voters(nb_participants)]))
        round == deliver_votes(AbstractRound_init("R1", None), db, votes_by_participant, nb_participants)
        result == CollectSameUntilThresholdRound_end_block(round, db, nb_participants)
    IN  /\ outcome' = VotesOutcome("end_block", result.err, None, None, result.event, StateDB_get(result.db, selection_key("R1"), None))
        /\ UNCHANGED <<is_setup, phase, blockchain, block_builder, abci_app, majority_vars>>

MajorityNext ==
    \/ AbstractRound_is_majority_possible
    \/ \E new_voter \in Voters(MaxVoters), new_vote \in VoteValues : AbstractRound_check_majority_possible_with_new_voter(new_voter, new_vote)
    \/ CollectSameUntilThresholdRound_votes_end_block

SpecMajority == MajorityInit /\ [][MajorityNext]_vars

(***************************************************************************)
(* The Timeouts queue of an AbciApp driven directly, before setup (no      *)
(* current round: process_event drops the events update_time fires):       *)
(* add_timeout, cancel_timeout and update_time with non-decreasing         *)
(* timestamps.                                                             *)
(***************************************************************************)
QueueDeadlines == {5, 10}
QueueTimes == {0, 5, 10}

Timeouts_add(deadline, event) ==
    /\ abci_app.timeouts.counter < MaxTimeouts
    /\ abci_app' = [abci_app EXCEPT !.timeouts = Timeouts_add_timeout(@, deadline, event)]
    /\ outcome' = Outcome("add_timeout", "ok", <<>>)
    /\ UNCHANGED <<is_setup, phase, blockchain, block_builder, majority_vars>>

Timeouts_cancel(entry_count) ==
    /\ abci_app' = [abci_app EXCEPT !.timeouts = Timeouts_cancel_timeout(@, entry_count)]
    /\ outcome' = Outcome("cancel_timeout", "ok", <<>>)
    /\ UNCHANGED <<is_setup, phase, blockchain, block_builder, majority_vars>>

AbciApp_observe_time(timestamp) ==
    /\ abci_app' = AbciApp_update_time(abci_app, timestamp).app
    /\ outcome' = Outcome("update_time", "ok", AbciApp_update_time(abci_app, timestamp).fired)
    /\ UNCHANGED <<is_setup, phase, blockchain, block_builder, majority_vars>>

TimeoutsNext ==
    \/ \E deadline \in QueueDeadlines, event \in {"T", "T2"} : Timeouts_add(deadline, event)
    \/ \E entry_count \in 0..MaxTimeouts : Timeouts_cancel(entry_count)
    \/ \E timestamp \in {x \in QueueTimes : x >= abci_app.last_timestamp} : AbciApp_observe_time(timestamp)

SpecTimeouts == Init /\ [][TimeoutsNext]_vars

(***************************************************************************)
(* The StateDB driven directly: update_current_period, add_new_period with *)
(* any period index, increment_round_count and cleanup with any depth, in  *)
(* any order, on the database of the application.                          *)
(***************************************************************************)
DbValues == {"X", "Y"}

StateDBInit ==
    /\ is_setup = FALSE
    /\ phase = WAITING_FOR_BEGIN_BLOCK
    /\ blockchain = <<>>
    /\ block_builder = BlockBuilder_reset
    /\ abci_app = AbciApp_init([StateDB_init(0, [k |-> "X"]) EXCEPT !.cross_period_persisted_keys = <<"k">>], MaxVoters)
    /\ outcome = Outcome("init", "ok", <<>>)
    /\ MajorityIdle

\* cleanup_history_depth is the argument of cleanup, and 0 for the other calls
\* the keyword arguments of the calls: the key k with a value, or the key j
DbKwargs == {[k |-> v] : v \in DbValues} \cup {[j |-> "X"]}

\* the outcome of a call that takes a period and keyword arguments; period_count is
\* NoPeriod when the call takes none
DbUpdateOutcome(call, err, period_count, kwargs) == [call |-> call, err |-> err, fired |-> <<>>, event |-> None, cleanup_history_depth |-> 0, period_count |-> period_count, kwargs |-> kwargs]

DbOutcome(call, err, cleanup_history_depth) == [call |-> call, err |-> err, fired |-> <<>>, event |-> None, cleanup_history_depth |-> cleanup_history_depth]

\* self._data[self._current_period_count] raises KeyError when the period is not stored
StateDB_call_update_current_period(kwargs) ==
    /\ IF abci_app.db.current_period_count \in DOMAIN abci_app.db.data
       THEN /\ abci_app' = [abci_app EXCEPT !.db = StateDB_update_current_period(@, kwargs)]
            /\ outcome' = DbUpdateOutcome("update_current_period", "ok", NoPeriod, kwargs)
       ELSE /\ abci_app' = abci_app
            /\ outcome' = DbUpdateOutcome("update_current_period", "KeyError", NoPeriod, kwargs)
    /\ UNCHANGED <<is_setup, phase, blockchain, block_builder, majority_vars>>

StateDB_call_add_new_period(new_period, kwargs) ==
    /\ abci_app' = [abci_app EXCEPT !.db = StateDB_add_new_period(@, new_period, kwargs)]
    /\ outcome' = DbUpdateOutcome("add_new_period", "ok", new_period, kwargs)
    /\ UNCHANGED <<is_setup, phase, blockchain, block_builder, majority_vars>>

\* period_state.update(period_count=period_count, **kwargs) on a view of the database
BasePeriodState_call_update(period_count, kwargs) ==
    /\ IF period_count # NoPeriod \/ abci_app.db.current_period_count \in DOMAIN abci_app.db.data
       THEN /\ abci_app' = [abci_app EXCEPT !.db = BasePeriodState_update(@, period_count, kwargs)]
            /\ outcome' = DbUpdateOutcome("update", "ok", period_count, kwargs)
       ELSE /\ abci_app' = abci_app
            /\ outcome' = DbUpdateOutcome("update", "KeyError", period_count, kwargs)
    /\ UNCHANGED <<is_setup, phase, blockchain, block_builder, majority_vars>>

StateDB_call_increment_round_count ==
    /\ abci_app.db.round_count < MaxRoundCount
    /\ abci_app' = [abci_app EXCEPT !.db = StateDB_increment_round_count(@)]
    /\ outcome' = DbOutcome("increment_round_count", "ok", 0)
    /\ UNCHANGED <<is_setup, phase, blockchain, block_builder, majority_vars>>

StateDB_call_cleanup(cleanup_history_depth) ==
    /\ abci_app' = [abci_app EXCEPT !.db = StateDB_cleanup(@, cleanup_history_depth)]
    /\ outcome' = DbOutcome("cleanup", "ok", cleanup_history_depth)
    /\ UNCHANGED <<is_setup, phase, blockchain, block_builder, majority_vars>>

StateDBNext ==
    \/ \E kwargs \in DbKwargs : StateDB_call_update_current_period(kwargs)
    \/ \E new_period \in 0..MaxPeriod, kwargs \in DbKwargs : StateDB_call_add_new_period(new_period, kwargs)
    \/ \E period_count \in {NoPeriod} \cup 0..MaxPeriod, kwargs \in DbKwargs : BasePeriodState_call_update(period_count, kwargs)
    \/ StateDB_call_increment_round_count
    \/ \E cleanup_history_depth \in 0..MaxDepth : StateDB_call_cleanup(cleanup_history_depth)

SpecStateDB == StateDBInit /\ [][StateDBNext]_vars

(***************************************************************************)
(* The application driven directly: setup once, then process_event with    *)
(* any event, update_time, cleanup with any depth and the begin_block of   *)
(* the Period that owns it, in any order.                                  *)
(***************************************************************************)
AppEvents == {"done", "no_majority", "T", "none"}

AbciApp_call_process_event(event, result) ==
    /\ abci_app.current_round_height < MaxRounds
    /\ abci_app' = AbciApp_process_event(abci_app, event, result)
    /\ outcome' = [call |-> "process_event", err |-> "ok", fired |-> <<>>, event |-> event, result |-> result]
    /\ UNCHANGED <<is_setup, phase, blockchain, block_builder, majority_vars>>

AbciApp_call_update_time(timestamp) ==
    /\ abci_app.current_round_height < MaxRounds
    /\ AbciApp_observe_time(timestamp)

AbciApp_call_cleanup(cleanup_history_depth) ==
    /\ abci_app' = AbciApp_cleanup(abci_app, cleanup_history_depth).app
    /\ outcome' = DbOutcome("cleanup", AbciApp_cleanup(abci_app, cleanup_history_depth).err, cleanup_history_depth)
    /\ UNCHANGED <<is_setup, phase, blockchain, block_builder, majority_vars>>

AppNext ==
    \/ Period_setup
    \/ \E event \in AppEvents, result \in {None, "BasePeriodState"} : AbciApp_call_process_event(event, result)
    \/ \E timestamp \in {x \in QueueTimes : x >= abci_app.last_timestamp} : AbciApp_call_update_time(timestamp)
    \/ \E cleanup_history_depth \in 0..MaxDepth : AbciApp_call_cleanup(cleanup_history_depth)
    \/ \E header \in Headers : Period_begin_block(header)

SpecApp == Init /\ [][AppNext]_vars

(***************************************************************************)
(* The payload codec: a payload object is [cls, id_, round_count, sender,  *)
(* fields], fields holding the variant's constructor arguments by keyword. *)
(* The variants are three of the apy_estimation skill, known by the        *)
(* constructor keywords and the data dictionaries its tests state.  The    *)
(* serializer is modelled from the specification: a stable serialization   *)
(* of a dictionary, its items in the order of their keys, and its inverse. *)
(***************************************************************************)
PayloadClasses == {"FetchingPayload", "TrainingPayload", "RandomnessPayload"}

\* str(cls.transaction_type)
transaction_type_of(cls) ==
    CASE cls = "FetchingPayload" -> "fetching"
      [] cls = "TrainingPayload" -> "training"
      [] cls = "RandomnessPayload" -> "randomness"

\* _MetaPayload.transaction_type_to_payload_cls
transaction_type_to_payload_cls == [t \in {transaction_type_of(cls) : cls \in PayloadClasses} |-> CHOOSE cls \in PayloadClasses : transaction_type_of(cls) = t]

\* the keywords of the variant's constructor besides sender, id_ and round_count
payload_keywords(cls) ==
    CASE cls = "FetchingPayload" -> {"history_hash"}
      [] cls = "TrainingPayload" -> {"model_hash"}
      [] cls = "RandomnessPayload" -> {"round_id", "randomness"}

\* the key of the variant's data dictionary that carries a constructor argument
data_key(cls, keyword) == IF cls = "FetchingPayload" /\ keyword = "history_hash" THEN "history" ELSE keyword

\* id_ is uuid.uuid4().hex when none is given
BaseTxPayload_init(cls, sender, id_, round_count, fields, uuid) ==
    [cls |-> cls, id_ |-> IF id_ = None THEN uuid ELSE id_, round_count |-> round_count, sender |-> sender, fields |-> fields]

NoPayload == [cls |-> None, id_ |-> None, round_count |-> ROUND_COUNT_DEFAULT, sender |-> None, fields |-> EmptyDict]

BaseTxPayload_data(p) ==
    [key \in {data_key(p.cls, keyword) : keyword \in DOMAIN p.fields} |-> p.fields[CHOOSE keyword \in DOMAIN p.fields : data_key(p.cls, keyword) = key]]

BaseTxPayload_json(p) ==
    LET data == BaseTxPayload_data(p)
    IN  [key \in {"transaction_type", "id_", "sender", "round_count"} \cup DOMAIN data |->
            CASE key = "transaction_type" -> transaction_type_of(p.cls)
              [] key = "id_" -> p.id_
              [] key = "sender" -> p.sender
              [] key = "round_count" -> p.round_count
              [] OTHER -> data[key]]

\* the keys of the dictionaries serialized, in increasing order
KeyOrder == <<"history", "id_", "model_hash", "randomness", "round_count", "round_id", "sender", "transaction_type">>

\* the serialization: the items of the dictionary as (key, value) pairs in key order
serializer_to_bytes(obj) ==
    LET RECURSIVE items(_)
        items(i) == IF i > Len(KeyOrder) THEN <<>>
                    ELSE IF KeyOrder[i] \in DOMAIN obj THEN << <<KeyOrder[i], obj[KeyOrder[i]]>> >> \o items(i + 1)
                    ELSE items(i + 1)
    IN  items(1)

serializer_from_bytes(bytes) ==
    [key \in {bytes[i][1] : i \in DOMAIN bytes} |-> bytes[CHOOSE i \in DOMAIN bytes : bytes[i][1] = key][2]]

BaseTxPayload_encode(p) == serializer_to_bytes(BaseTxPayload_json(p))

\* payload_cls(**kwargs): Python raises TypeError for a keyword the constructor does not
\* take and for a required one that is missing; id_ and round_count have defaults
payload_cls_call(cls, kwargs, uuid) ==
    IF /\ DOMAIN kwargs \subseteq {"sender", "id_", "round_count"} \cup payload_keywords(cls)
       /\ {"sender"} \cup payload_keywords(cls) \subseteq DOMAIN kwargs
    THEN [err |-> "ok",
          payload |-> BaseTxPayload_init(cls, kwargs["sender"], DictGet(kwargs, "id_", None), DictGet(kwargs, "round_count", ROUND_COUNT_DEFAULT),
                                         [keyword \in payload_keywords(cls) |-> kwargs[keyword]], uuid)]
    ELSE [err |-> "TypeError", payload |-> NoPayload]

BaseTxPayload_from_json(obj, uuid) ==
    LET data == [key \in DOMAIN obj \ {"transaction_type"} |-> obj[key]]
        payload_cls == transaction_type_to_payload_cls[obj["transaction_type"]]
    IN  payload_cls_call(payload_cls, data, uuid)

BaseTxPayload_decode(bytes, uuid) == BaseTxPayload_from_json(serializer_from_bytes(bytes), uuid)

BaseTxPayload_eq(p, other) ==
    /\ p.id_ = other.id_
    /\ p.round_count = other.round_count
    /\ p.sender = other.sender
    /\ BaseTxPayload_data(p) = BaseTxPayload_data(other)

Uuids == {"u1", "u2"}

\* the constructor arguments tried for a variant
FieldsOf(cls) ==
    CASE cls = "FetchingPayload" -> {[history_hash |-> v] : v \in {"x0", "x1"}}
      [] cls = "TrainingPayload" -> {[model_hash |-> v] : v \in {"x0", "x1"}}
      [] cls = "RandomnessPayload" -> {[round_id |-> r, randomness |-> "1"] : r \in {0, 1}}

\* the payloads built: of every variant, with an id given or generated
CodecPayloads ==
    UNION {{BaseTxPayload_init(cls, sender, id_, round_count, fields, uuid) :
                sender \in {"a", "b"}, id_ \in {"id", None}, round_count \in {ROUND_COUNT_DEFAULT, 0, 1}, fields \in FieldsOf(cls), uuid \in Uuids} :
           cls \in PayloadClasses}

CodecOutcome(call, err, payload, encoded, decoded) == [call |-> call, err |-> err, fired |-> <<>>, event |-> None, payload |-> payload, encoded |-> encoded, decoded |-> decoded]

CodecInit ==
    /\ is_setup = FALSE
    /\ phase = WAITING_FOR_BEGIN_BLOCK
    /\ blockchain = <<>>
    /\ block_builder = BlockBuilder_reset
    /\ abci_app = AbciApp_init(StateDB_init(0, [participants |-> Participants]), Cardinality(Participants))
    /\ \E p \in CodecPayloads : outcome = CodecOutcome("init", "ok", p, <<>>, NoPayload)
    /\ MajorityIdle

BaseTxPayload_call_encode ==
    /\ outcome.call = "init"
    /\ outcome' = CodecOutcome("encode", "ok", outcome.payload, BaseTxPayload_encode(outcome.payload), NoPayload)
    /\ UNCHANGED <<is_setup, phase, blockchain, block_builder, abci_app, majority_vars>>

BaseTxPayload_call_decode(uuid) ==
    /\ outcome.call = "encode"
    /\ outcome' = CodecOutcome("decode", BaseTxPayload_decode(outcome.encoded, uuid).err, outcome.payload, outcome.encoded, BaseTxPayload_decode(outcome.encoded, uuid).payload)
    /\ UNCHANGED <<is_setup, phase, blockchain, block_builder, abci_app, majority_vars>>

CodecNext ==
    \/ BaseTxPayload_call_encode
    \/ \E uuid \in Uuids : BaseTxPayload_call_decode(uuid)

SpecCodec == CodecInit /\ [][CodecNext]_vars

(***************************************************************************)
(* _MetaAbciApp: the checks run when an AbciApp class is created.  A class *)
(* is [has_initial_round_cls, initial_round_cls, initial_states,           *)
(* has_transition_function, transition_function, final_states,             *)
(* event_to_timeout]; transition_function maps a round class to the        *)
(* dictionary event -> next round class.  The answer is "ok" or the class  *)
(* of the exception raised.                                                *)
(***************************************************************************)
\* aea.exceptions.enforce(is_valid_condition, exception_text): raises its default
\* exception class, AEAEnforceError, when the condition is false
enforce(is_valid_condition) == IF is_valid_condition THEN "ok" ELSE "AEAEnforceError"

\* AbciApp.get_all_rounds
get_all_rounds(abci_app_cls) == DOMAIN abci_app_cls.transition_function

MetaAbciApp_check_required_class_attributes(abci_app_cls) ==
    IF ~abci_app_cls.has_initial_round_cls THEN "ABCIAppInternalError"
    ELSE IF ~abci_app_cls.has_transition_function THEN "ABCIAppInternalError"
    ELSE "ok"

\* the checks of the final states without the one on DegenerateRound
MetaAbciApp_check_initial_states_and_final_states_any_final(abci_app_cls) ==
    LET initial_round_cls_ == abci_app_cls.initial_round_cls
        initial_states == abci_app_cls.initial_states
        transition_function_ == abci_app_cls.transition_function
        final_states_ == abci_app_cls.final_states
        states == get_all_rounds(abci_app_cls)
        true_initial_states == IF initial_states # {} THEN initial_states ELSE {initial_round_cls_}
    IN  IF enforce(initial_states = {} \/ initial_round_cls_ \in initial_states) # "ok" THEN "AEAEnforceError"
        ELSE IF enforce(initial_round_cls_ \in states /\ \A initial_state \in initial_states : initial_state \in states) # "ok" THEN "AEAEnforceError"
        ELSE IF enforce(\A initial_state \in true_initial_states : initial_state \notin final_states_) # "ok" THEN "AEAEnforceError"
        ELSE IF enforce(Cardinality(final_states_ \ states) = 0) # "ok" THEN "AEAEnforceError"
        ELSE enforce(\A final_state \in final_states_ : Cardinality(DOMAIN transition_function_[final_state]) = 0)

MetaAbciApp_check_initial_states_and_final_states(abci_app_cls) ==
    LET initial_round_cls_ == abci_app_cls.initial_round_cls
        initial_states == abci_app_cls.initial_states
        transition_function_ == abci_app_cls.transition_function
        final_states_ == abci_app_cls.final_states
        states == get_all_rounds(abci_app_cls)
        true_initial_states == IF initial_states # {} THEN initial_states ELSE {initial_round_cls_}
    IN  IF enforce(initial_states = {} \/ initial_round_cls_ \in initial_states) # "ok" THEN "AEAEnforceError"
        ELSE IF enforce(initial_round_cls_ \in states /\ \A initial_state \in initial_states : initial_state \in states) # "ok" THEN "AEAEnforceError"
        ELSE IF enforce(\A initial_state \in true_initial_states : initial_state \notin final_states_) # "ok" THEN "AEAEnforceError"
        ELSE IF enforce(Cardinality(final_states_ \ states) = 0) # "ok" THEN "AEAEnforceError"
        ELSE IF enforce(\A final_state \in final_states_ : Cardinality(DOMAIN transition_function_[final_state]) = 0) # "ok" THEN "AEAEnforceError"
        ELSE enforce(\A final_state \in final_states_ : RoundTemplate(final_state) = "DegenerateRound")

\* the check of the outgoing transitions that admits two timeout events
MetaAbciApp_check_consistency_outgoing_transitions_two_timeouts(abci_app_cls) ==
    LET states == get_all_rounds(abci_app_cls)
        non_final_states == states \ abci_app_cls.final_states
        timeout_events == DOMAIN abci_app_cls.event_to_timeout
        refused(non_final_state) ==
            LET outgoing_events == DOMAIN abci_app_cls.transition_function[non_final_state]
                outgoing_timeout_events == outgoing_events \cap timeout_events
                outgoing_nontimeout_events == outgoing_events \ timeout_events
            IN  \/ enforce(Cardinality(outgoing_timeout_events) <= 2) # "ok"
                \/ enforce(Cardinality(outgoing_nontimeout_events) > 0) # "ok"
    IN  IF \E non_final_state \in non_final_states : refused(non_final_state) THEN "AEAEnforceError" ELSE "ok"

\* the loop raises at the first state, in the order of iteration of the set, that fails
\* one of the two enforce calls; every failure raises the same exception class
MetaAbciApp_check_consistency_outgoing_transitions_from_non_final_states(abci_app_cls) ==
    LET states == get_all_rounds(abci_app_cls)
        non_final_states == states \ abci_app_cls.final_states
        timeout_events == DOMAIN abci_app_cls.event_to_timeout
        refused(non_final_state) ==
            LET outgoing_events == DOMAIN abci_app_cls.transition_function[non_final_state]
                outgoing_timeout_events == outgoing_events \cap timeout_events
                outgoing_nontimeout_events == outgoing_events \ timeout_events
            IN  \/ enforce(Cardinality(outgoing_timeout_events) < 2) # "ok"
                \/ enforce(Cardinality(outgoing_nontimeout_events) > 0) # "ok"
    IN  IF \E non_final_state \in non_final_states : refused(non_final_state) THEN "AEAEnforceError" ELSE "ok"

MetaAbciApp_check_consistency(abci_app_cls) ==
    IF MetaAbciApp_check_required_class_attributes(abci_app_cls) # "ok" THEN MetaAbciApp_check_required_class_attributes(abci_app_cls)
    ELSE IF MetaAbciApp_check_initial_states_and_final_states(abci_app_cls) # "ok" THEN MetaAbciApp_check_initial_states_and_final_states(abci_app_cls)
    ELSE MetaAbciApp_check_consistency_outgoing_transitions_from_non_final_states(abci_app_cls)

\* the round classes and events an application class is declared over
DeclaredRounds == {"R1", "R2", "FinalRound"}
DeclaredEvents == {"done", "T", "T2"}

\* the transition functions tried: any set of declared rounds as keys, any set of declared
\* events out of each (the checks never read the next round class)
DeclaredTransitionFunctions ==
    UNION {[keys -> {[e \in events |-> "R1"] : events \in SUBSET DeclaredEvents}] : keys \in SUBSET DeclaredRounds}

\* the application classes tried: with both required attributes, and without one of them
DeclaredAppClasses ==
    {[has_initial_round_cls |-> TRUE, initial_round_cls |-> initial, initial_states |-> initials,
      has_transition_function |-> TRUE, transition_function |-> tf, final_states |-> finals, event_to_timeout |-> event_to_timeout] :
         initial \in DeclaredRounds, initials \in {{}, {"R1"}, {"R2"}}, tf \in DeclaredTransitionFunctions,
         finals \in {{}, {"FinalRound"}, {"R2"}, {"R2", "FinalRound"}}}
    \cup {[has_initial_round_cls |-> has[1], initial_round_cls |-> "R1", initial_states |-> {},
           has_transition_function |-> has[2], transition_function |-> [cls \in {"R1"} |-> [e \in {"done"} |-> "R1"]], final_states |-> {}, event_to_timeout |-> event_to_timeout] :
              has \in {<<FALSE, TRUE>>, <<TRUE, FALSE>>, <<FALSE, FALSE>>}}

CheckerOutcome(call, err, abci_app_cls) == [call |-> call, err |-> err, fired |-> <<>>, event |-> None, abci_app_cls |-> abci_app_cls]

CheckerInit ==
    /\ is_setup = FALSE
    /\ phase = WAITING_FOR_BEGIN_BLOCK
    /\ blockchain = <<>>
    /\ block_builder = BlockBuilder_reset
    /\ abci_app = AbciApp_init(StateDB_init(0, [participants |-> Participants]), Cardinality(Participants))
    /\ \E abci_app_cls \in DeclaredAppClasses : outcome = CheckerOutcome("init", "ok", abci_app_cls)
    /\ MajorityIdle

\* _MetaAbciApp.__new__ for a concrete subclass of AbciApp
MetaAbciApp_new ==
    /\ outcome.call = "init"
    /\ outcome' = CheckerOutcome("new", MetaAbciApp_check_consistency(outcome.abci_app_cls), outcome.abci_app_cls)
    /\ UNCHANGED <<is_setup, phase, blockchain, block_builder, abci_app, majority_vars>>

CheckerNext == MetaAbciApp_new

SpecChecker == CheckerInit /\ [][CheckerNext]_vars

(***************************************************************************)
(* ConsensusParams: the consensus threshold of max_participants, for every *)
(* number of participants from 0 to MaxParticipants.                       *)
(***************************************************************************)
\* threshold is the value returned, and 0 before the call
ThresholdOutcome(call, threshold) == [call |-> call, err |-> "ok", fired |-> <<>>, event |-> None, threshold |-> threshold]

ConsensusParamsInit ==
    /\ is_setup = FALSE
    /\ phase = WAITING_FOR_BEGIN_BLOCK
    /\ blockchain = <<>>
    /\ block_builder = BlockBuilder_reset
    /\ \E max_participants \in 0..MaxParticipants :
          abci_app = AbciApp_init(StateDB_init(0, [participants |-> Participants]), max_participants)
    /\ outcome = ThresholdOutcome("init", 0)
    /\ MajorityIdle

ConsensusParams_consensus_threshold ==
    /\ outcome.call = "init"
    /\ outcome' = ThresholdOutcome("consensus_threshold", consensus_threshold(abci_app.consensus_params.max_participants))
    /\ UNCHANGED <<is_setup, phase, blockchain, block_builder, abci_app, majority_vars>>

ConsensusParamsNext == ConsensusParams_consensus_threshold

SpecConsensusParams == ConsensusParamsInit /\ [][ConsensusParamsNext]_vars

(***************************************************************************)
(* update_time run one pass of its while loop at a time, on the            *)
(* application of R1, R2 and FinalRound and on the application of Z1, each *)
(* with its first round scheduled at a known time.  outcome holds the      *)
(* timestamp of the call in progress, whether the call is inside the loop, *)
(* the number of passes made and the entries fired so far by the call.     *)
(***************************************************************************)
LoopTimes == {0, 2, 12, 14}

LoopOutcome(call, fired, timestamp, in_loop, iterations) == [call |-> call, err |-> "ok", fired |-> fired, event |-> None, timestamp |-> timestamp, in_loop |-> in_loop, iterations |-> iterations]

UpdateTimeInit ==
    /\ is_setup = TRUE
    /\ phase = WAITING_FOR_BEGIN_BLOCK
    /\ blockchain = <<>>
    /\ block_builder = BlockBuilder_reset
    /\ \E cls \in {"R1", "R2", "Z1"}, timestamp \in LoopTimes :
          abci_app = AbciApp_schedule_round([AbciApp_init(StateDB_init(0, [participants |-> Participants]), Cardinality(Participants)) EXCEPT !.last_timestamp = timestamp], cls)
    /\ outcome = LoopOutcome("init", <<>>, 0, FALSE, 0)
    /\ MajorityIdle

\* the call of update_time(timestamp), up to the first test of the loop's condition
AbciApp_update_time_enter(timestamp) ==
    /\ ~outcome.in_loop
    /\ timestamp >= abci_app.last_timestamp
    /\ abci_app' = update_time_enter(abci_app, timestamp).app
    /\ outcome' = LoopOutcome("update_time", <<>>, timestamp, update_time_enter(abci_app, timestamp).in_loop, 0)
    /\ UNCHANGED <<is_setup, phase, blockchain, block_builder, majority_vars>>

\* one pass of the loop of the call in progress
AbciApp_update_time_iterate ==
    /\ outcome.in_loop
    /\ abci_app.current_round_height < MaxIterations
    /\ abci_app' = update_time_iteration(abci_app, outcome.timestamp).app
    /\ outcome' = LoopOutcome("update_time", outcome.fired \o update_time_iteration(abci_app, outcome.timestamp).fired, outcome.timestamp, update_time_iteration(abci_app, outcome.timestamp).in_loop, outcome.iterations + 1)
    /\ UNCHANGED <<is_setup, phase, blockchain, block_builder, majority_vars>>

UpdateTimeNext ==
    \/ \E timestamp \in LoopTimes : AbciApp_update_time_enter(timestamp)
    \/ AbciApp_update_time_iterate

SpecUpdateTime == UpdateTimeInit /\ [][UpdateTimeNext]_vars

(***************************************************************************)
(* The Period driver over every round template: an app of the two          *)
(* participants a and b whose keeper is a, set up with R2 (after R1), D1,  *)
(* K1, V1 or FinalRound as its current round, and driven by begin_block,   *)
(* deliver_tx, end_block and commit.                                       *)
(***************************************************************************)
DriverDB == StateDB_init(0, [participants |-> Participants, most_voted_keeper_address |-> "a"])

DriverInit ==
    /\ is_setup = TRUE
    /\ phase = WAITING_FOR_BEGIN_BLOCK
    /\ blockchain = <<>>
    /\ block_builder = BlockBuilder_reset
    /\ \/ abci_app = AbciApp_process_event(AbciApp_setup(AbciApp_init(DriverDB, Cardinality(Participants))), "done", "BasePeriodState")
       \/ \E cls \in {"D1", "K1", "V1", "FinalRound"} : abci_app = AbciApp_schedule_round(AbciApp_init(DriverDB, Cardinality(Participants)), cls)
    /\ outcome = Outcome("setup", "ok", <<>>)
    /\ MajorityIdle

\* the headers of at most three blocks, of the expected height or of another one
DriverHeaders == {Header(h, t) : h \in {Len(blockchain) + 1, Len(blockchain) + 2}, t \in {x \in {0, 9, 11} : x > abci_app.last_timestamp}}

\* the payloads of the participants and of an outsider, of the kind the current round
\* allows, and payloads of a wrong round count or kind
DriverTransactions ==
    LET rc == abci_app.db.round_count
        kind == allowed_tx_type(abci_app.current_round.cls)
        attributes == IF RoundTemplate(abci_app.current_round.cls) = "VotingRound" THEN {"True", "False", None} ELSE {"X", None}
    IN  {Payload(s, rc, kind, v) : s \in Participants \cup {Outsider}, v \in attributes}
        \cup {Payload("a", rc - 1, kind, "X"), Payload("a", rc, "A", "X"), Payload("a", rc, "C", "X")}

DriverNext ==
    \/ \E header \in DriverHeaders : Period_begin_block(header)
    \/ \E transaction \in DriverTransactions : Period_deliver_tx(transaction)
    \/ Period_end_block
    \/ Period_commit

SpecDriver == DriverInit /\ [][DriverNext]_vars

\* the same with Period.reset_blockchain
DriverNextReplay == DriverNext \/ \E is_replay \in BOOLEAN : Period_reset_blockchain(is_replay)

SpecDriverReplay == DriverInit /\ [][DriverNextReplay]_vars

(***************************************************************************)
(* Properties.                                                             *)
(***************************************************************************)
\* the deadlines of the entries of the heap that are not cancelled
LiveDeadlines(app) == {app.timeouts.heap[i].deadline : i \in {j \in DOMAIN app.timeouts.heap : ~app.timeouts.heap[j].cancelled}}

\* a step that is a rejected call: Internal error, nothing of the period changes
RejectedOutOfPhase ==
    /\ outcome'.err = "ABCIAppInternalError"
    /\ UNCHANGED <<phase, blockchain, block_builder, abci_app>>

\* C2: begin_block is accepted only in WAITING_FOR_BEGIN_BLOCK, deliver_tx and end_block
\* only in WAITING_FOR_DELIVER_TX, commit only in WAITING_FOR_COMMIT; a call made in another
\* phase raises ABCIAppInternalError and leaves the phase, the blockchain, the block
\* builder, the current round and the timeout heap unchanged.
C2_PhaseGating ==
    [][/\ (outcome'.call = "begin_block" /\ phase # WAITING_FOR_BEGIN_BLOCK) => RejectedOutOfPhase
       /\ (outcome'.call \in {"deliver_tx", "end_block"} /\ phase # WAITING_FOR_DELIVER_TX) => RejectedOutOfPhase
       /\ (outcome'.call = "commit" /\ phase # WAITING_FOR_COMMIT) => RejectedOutOfPhase]_vars

\* an end_block call was rejected while the block was waiting for its commit
C2_Witness ==
    /\ outcome.call = "end_block"
    /\ outcome.err = "ABCIAppInternalError"
    /\ phase = WAITING_FOR_COMMIT
    /\ Len(block_builder.transactions) > 0

\* what a commit made in WAITING_FOR_COMMIT does when the block is appended and the
\* round's end_block does not raise
CommitCompletes(result) ==
    /\ phase' = WAITING_FOR_BEGIN_BLOCK
    /\ outcome'.err = "ok"
    /\ abci_app'.current_round_height = abci_app.current_round_height + (IF result.event # None THEN 1 ELSE 0)
    /\ Len(abci_app'.round_results) = Len(abci_app.round_results) + (IF result.event # None THEN 1 ELSE 0)
    /\ result.event = None => abci_app' = [abci_app EXCEPT !.current_round = result.round, !.db = result.db]

\* C3 as stated: every commit made in WAITING_FOR_COMMIT appends the block built since
\* the last begin_block, processes an event exactly when the round's end_block returned
\* one, and leaves the phase at WAITING_FOR_BEGIN_BLOCK.
C3_AsStated ==
    [][(outcome'.call = "commit" /\ phase = WAITING_FOR_COMMIT) =>
          /\ blockchain' = Append(blockchain, BlockBuilder_get_block(block_builder))
          /\ CommitCompletes(Round_end_block(abci_app.current_round, abci_app.db, abci_app.consensus_params.max_participants))]_vars

\* C3: a commit made in WAITING_FOR_COMMIT whose block has the height the chain expects
\* appends the block built since the last begin_block (header and accepted transactions in
\* delivery order) and calls end_block of the current round; when end_block does not raise,
\* an event is processed exactly when end_block returned one and the phase becomes
\* WAITING_FOR_BEGIN_BLOCK; when end_block raises (a Degenerate round) the block stays
\* appended and the phase stays WAITING_FOR_COMMIT; when the height is another one the call
\* raises AddBlockError and changes nothing.
C3_Commit ==
    [][(outcome'.call = "commit" /\ phase = WAITING_FOR_COMMIT) =>
          LET block == BlockBuilder_get_block(block_builder)
              result == Round_end_block(abci_app.current_round, abci_app.db, abci_app.consensus_params.max_participants)
          IN  IF block.header.height # Len(blockchain) + 1
              THEN /\ outcome'.err = "AddBlockError"
                   /\ UNCHANGED <<phase, blockchain, block_builder, abci_app>>
              ELSE /\ blockchain' = Append(blockchain, block)
                   /\ IF result.err # "ok"
                      THEN /\ outcome'.err = result.err
                           /\ UNCHANGED <<phase, abci_app>>
                      ELSE CommitCompletes(result)]_vars

\* a commit appended a block of two transactions and processed an event
C3_Witness ==
    /\ outcome.call = "commit"
    /\ outcome.err = "ok"
    /\ phase = WAITING_FOR_BEGIN_BLOCK
    /\ Len(blockchain) > 0
    /\ Len(blockchain[Len(blockchain)].transactions) = 2
    /\ Len(abci_app.round_results) > 0

\* the i-th block of the chain has height i
HeightsConsecutive == \A i \in DOMAIN blockchain : blockchain[i].header.height = i

\* C4: add_block succeeds iff the block's height is the chain's height + 1, otherwise it
\* raises AddBlockError and the chain is unchanged; so the i-th block of the chain has
\* height i and consecutive blocks differ in height by one.
C4_HeightMonotonicity ==
    /\ []HeightsConsecutive
    /\ [][(outcome'.call = "commit" /\ phase = WAITING_FOR_COMMIT) =>
             LET block == BlockBuilder_get_block(block_builder)
             IN  IF block.header.height = Blockchain_height(blockchain) + 1
                 THEN blockchain' = Append(blockchain, block) /\ outcome'.err # "AddBlockError"
                 ELSE blockchain' = blockchain /\ outcome'.err = "AddBlockError"]_vars

\* a block was refused by a chain that already holds one
C4_Witness ==
    /\ outcome.call = "commit"
    /\ outcome.err = "AddBlockError"
    /\ Len(blockchain) > 0

\* C5: a timeout whose deadline is at or before the timestamp of a block fires in the
\* begin_block of that block: while the block's transactions are delivered no entry of the
\* heap that is not cancelled has a deadline at or before the block's timestamp, and the
\* current round is the one the fired timeout scheduled, still empty when begin_block
\* returns.
C5_TimeoutsBeforeTransactions ==
    phase = WAITING_FOR_DELIVER_TX =>
        /\ abci_app.last_timestamp = block_builder.header.timestamp
        /\ \A d \in LiveDeadlines(abci_app) : d > block_builder.header.timestamp
        /\ (outcome.call = "begin_block" /\ outcome.fired # <<>>) =>
               /\ abci_app.current_round_cls = transition_function_get(abci_app.last_round.cls, outcome.fired[Len(outcome.fired)].event)
               /\ abci_app.current_round.collection = EmptyDict

\* a block whose timestamp equals a deadline fired that timeout in its begin_block
C5_Witness ==
    /\ phase = WAITING_FOR_DELIVER_TX
    /\ outcome.call = "begin_block"
    /\ Len(outcome.fired) = 1
    /\ outcome.fired[1].deadline = block_builder.header.timestamp

\* C6: round_count is -1 until setup; the _schedule_round call of setup and the one of
\* every process_event that has a next round add exactly one to it, and no other step
\* changes it.
C6_RoundCount ==
    /\ [](~is_setup => abci_app.db.round_count = ROUND_COUNT_DEFAULT)
    /\ [][LET scheduled == \/ ~is_setup /\ is_setup'
                           \/ /\ abci_app'.current_round_height = abci_app.current_round_height + 1
                              /\ abci_app'.current_round_cls # None
          IN  abci_app'.db.round_count = abci_app.db.round_count + (IF scheduled THEN 1 ELSE 0)]_vars

\* three rounds have been scheduled
C6_Witness == abci_app.db.round_count = 2 /\ abci_app.current_round_height = 2

\* the timestamps of the blocks begun so far, in order
BegunTimes ==
    [i \in DOMAIN blockchain |-> blockchain[i].header.timestamp]
        \o (IF phase # WAITING_FOR_BEGIN_BLOCK THEN <<block_builder.header.timestamp>> ELSE <<>>)

\* no block of the chain from the from-th on holds a transaction
EmptyFrom(from) == \A i \in DOMAIN blockchain : i >= from => blockchain[i].transactions = <<>>

\* the first block, of timestamp 0, holds two payloads of different values: at its commit
\* R1 ends with no_majority and R1 is scheduled again
FirstBlockNoMajority ==
    /\ Len(blockchain) >= 1
    /\ blockchain[1].header.timestamp = 0
    /\ Len(blockchain[1].transactions) = 2
    /\ blockchain[1].transactions[1].value # blockchain[1].transactions[2].value
    /\ EmptyFrom(2)

\* C8 as stated: R1 being the round scheduled by setup, the begin_block at t=0 arms a
\* deadline at 10, the begin_block at t=9 leaves it pending, and the begin_block at t=11
\* fires T and schedules R2, round_count having been incremented twice.
C8_AsStated ==
    /\ (EmptyFrom(1) /\ BegunTimes \in {<<0>>, <<0, 9>>}) => LiveDeadlines(abci_app) = {10}
    /\ (EmptyFrom(1) /\ BegunTimes = <<0, 9, 11>>) =>
           abci_app.current_round_cls = "R2" /\ abci_app.db.round_count = ROUND_COUNT_DEFAULT + 2

\* C8: the R1 scheduled by setup has no deadline (no block time is known at setup): the
\* begin_blocks at t=0, 9 and 11 leave the heap empty, R1 current and round_count at 0.
\* When R1 is scheduled by process_event at block time 0 a deadline at 10 is armed, the
\* begin_block at t=9 leaves it pending, and the begin_block at t=11 pops it, fires T and
\* schedules R2, which adds one to round_count.
C8_TimeoutScenario ==
    /\ (EmptyFrom(1) /\ BegunTimes \in {<<0>>, <<0, 9>>, <<0, 9, 11>>}) =>
           /\ abci_app.timeouts.heap = <<>>
           /\ abci_app.current_round_cls = "R1"
           /\ abci_app.db.round_count = 0
    /\ (FirstBlockNoMajority /\ BegunTimes \in {<<0>>, <<0, 9>>}) =>
           /\ LiveDeadlines(abci_app) = {10}
           /\ abci_app.current_round_cls = "R1"
           /\ abci_app.db.round_count = 1
    /\ (FirstBlockNoMajority /\ BegunTimes = <<0, 9, 11>>) =>
           /\ abci_app.current_round_cls = "R2"
           /\ abci_app.db.round_count = 2
           /\ LiveDeadlines(abci_app) = {11 + event_to_timeout["T2"]}
           /\ (outcome.call = "begin_block" /\ outcome.err = "ok") => (Len(outcome.fired) = 1 /\ outcome.fired[1].deadline = 10 /\ outcome.fired[1].event = "T")

\* the begin_block at t=11 fired the deadline armed when R1 was scheduled again at time 0
C8_Witness ==
    /\ FirstBlockNoMajority
    /\ BegunTimes = <<0, 9, 11>>
    /\ outcome.call = "begin_block"
    /\ outcome.err = "ok"
    /\ abci_app.current_round_cls = "R2"

\* (deadline, insertion sequence) order
FiresBefore(a, b) == a.deadline < b.deadline \/ (a.deadline = b.deadline /\ a.entry_count < b.entry_count)

\* the entries of S in (deadline, insertion sequence) order
InFiringOrder(S) == [k \in 1..Cardinality(S) |-> CHOOSE e \in S : Cardinality({f \in S : FiresBefore(f, e)}) = k - 1]

\* the entries of the heap that are not cancelled and have their deadline at or before t
Expired(heap, t) == {heap[i] : i \in {j \in DOMAIN heap : ~heap[j].cancelled /\ heap[j].deadline <= t}}

\* C7: with non-decreasing timestamps, update_time(t) fires the entries that are not
\* cancelled and have their deadline at or before t, in (deadline, insertion sequence) order,
\* and when it returns no such entry remains in the heap.
C7_FiringOrder ==
    [][outcome'.call = "update_time" =>
          /\ outcome'.fired = InFiringOrder(Expired(abci_app.timeouts.heap, abci_app'.last_timestamp))
          /\ Expired(abci_app'.timeouts.heap, abci_app'.last_timestamp) = {}]_vars

\* three entries fired at once: the two of deadline 5 in insertion order, then the one of
\* deadline 10 that was added first
C7_Witness ==
    /\ outcome.call = "update_time"
    /\ Len(outcome.fired) = 3
    /\ outcome.fired[1].entry_count = 1
    /\ outcome.fired[2].entry_count = 2
    /\ outcome.fired[3].entry_count = 0

\* ceil((2n + 1) / 3)
QuorumSize(n) == (2 * n) \div 3 + 1

\* the senders of the collection whose payload carries the value v
SendersOf(collection, v) == {s \in DOMAIN collection : collection[s].value = v}

\* C9: when end_block of a CollectSameUntilThreshold round returns done, at least
\* threshold(N) senders submitted the selected value, which is not None, and the state holds
\* the collection under collection_key and that value under selection_key; when no value
\* has threshold(N) votes and N - |collection| + the largest count is below threshold(N),
\* end_block returns no_majority.
C9_QuorumSoundness ==
    outcome.call = "end_block" =>
        LET collection == abci_app.current_round.collection
            N == Cardinality(RoundParticipants)
            counts == {Cardinality(SendersOf(collection, v)) : v \in RoundValues}
        IN  /\ outcome.event = "done" =>
                   \E v \in RoundValues \ {None} :
                       /\ Cardinality(SendersOf(collection, v)) >= QuorumSize(N)
                       /\ StateDB_get(abci_app.db, selection_key("R1"), None) = v
                       /\ StateDB_get(abci_app.db, collection_key("R1"), None) = collection
            /\ ((\A c \in counts : c < QuorumSize(N)) /\ (\A c \in counts : N - Cardinality(DOMAIN collection) + c < QuorumSize(N))) =>
                   outcome.event = "no_majority"

\* done was returned for a value that one participant did not vote for
C9_Witness ==
    /\ outcome.call = "end_block"
    /\ outcome.event = "done"
    /\ Cardinality(DOMAIN abci_app.current_round.collection) = Cardinality(RoundParticipants)
    /\ Cardinality(SendersOf(abci_app.current_round.collection, "X")) = QuorumSize(Cardinality(RoundParticipants))

\* some way for the voters that have not voted to vote gives one value threshold(n) votes
MajorityByBruteForce(votes, n) ==
    \E completion \in [Voters(n) \ DOMAIN votes -> VoteValues] :
        \E v \in VoteValues :
            Cardinality({p \in DOMAIN votes : votes[p] = v}) + Cardinality({p \in DOMAIN completion : completion[p] = v}) >= QuorumSize(n)

\* C10: is_majority_possible(votes, N) is true iff the voters that have not voted can vote
\* so that one value ends with at least threshold(N) votes; with no vote cast it is true.
C10_MajorityPossible ==
    majority_possible # None =>
        /\ (majority_possible = "True") <=> MajorityByBruteForce(votes_by_participant, nb_participants)
        /\ votes_by_participant = EmptyDict => majority_possible = "True"

\* a majority was found impossible while one voter had not voted
C10_Witness ==
    /\ majority_possible = "False"
    /\ Cardinality(DOMAIN votes_by_participant) = nb_participants - 1

\* the votes a:X, b:X, c:Y of four participants
ThreeVotes ==
    /\ nb_participants = 4
    /\ votes_by_participant = [p \in {"a", "b", "c"} |-> IF p = "c" THEN "Y" ELSE "X"]

\* the votes a:X, b:X, c:Y, d:X of four participants
FourVotes ==
    /\ nb_participants = 4
    /\ votes_by_participant = [p \in {"a", "b", "c", "d"} |-> IF p = "c" THEN "Y" ELSE "X"]

AddedTo(new_voter, new_vote) ==
    /\ outcome.call = "check_majority_possible_with_new_voter"
    /\ outcome.new_voter = new_voter
    /\ outcome.new_vote = new_vote

\* C11 as stated: for N = 4, with a:X, b:X, c:Y a majority is possible; it is still
\* possible once d:Y is added; when d:X is added instead, the end_block of a
\* CollectSameUntilThreshold round returns done with selection X.
C11_AsStated ==
    /\ (ThreeVotes /\ majority_possible # None) => majority_possible = "True"
    /\ (ThreeVotes /\ AddedTo("d", "Y")) => outcome.err = "ok"
    /\ (FourVotes /\ outcome.call = "end_block") => (outcome.event = "done" /\ outcome.selection = "X")

\* C11: for N = 4 (threshold 3), with a:X, b:X, c:Y a majority is possible (1 remaining +
\* 2 top >= 3); once d:Y is added it is not possible any more (0 remaining + 2 top < 3);
\* when d:X is added instead the check passes and the end_block of a
\* CollectSameUntilThreshold round returns done with selection X.
C11_ThresholdScenario ==
    /\ consensus_threshold(4) = 3
    /\ (ThreeVotes /\ majority_possible # None) => majority_possible = "True"
    /\ (ThreeVotes /\ AddedTo("d", "Y")) => outcome.err = "ABCIAppException"
    /\ (ThreeVotes /\ AddedTo("d", "X")) => outcome.err = "ok"
    /\ (FourVotes /\ outcome.call = "end_block") => (outcome.event = "done" /\ outcome.selection = "X")

\* the check was made for d:Y added to a:X, b:X, c:Y, found possible on their own
C11_Witness ==
    /\ ThreeVotes
    /\ majority_possible = "True"
    /\ AddedTo("d", "Y")

\* C12: in a CollectDifferentUntilThreshold round that requires two block confirmations,
\* once the payloads of threshold(N) senders are collected every end_block adds one to
\* block_confirmations and returns None while block_confirmations is at most 2, and done
\* at the first end_block where it is more (the third).
C12_AsStated ==
    (/\ abci_app.current_round.cls = "D1"
     /\ outcome.call = "end_block"
     /\ Cardinality(DOMAIN abci_app.current_round.collection) >= QuorumSize(Cardinality(RoundParticipants))) =>
        /\ abci_app.current_round.block_confirmations >= 1
        /\ outcome.event = (IF abci_app.current_round.block_confirmations > required_block_confirmations("D1") THEN "done" ELSE None)

\* the conditions under which OnlyKeeperSends refuses a payload
KeeperRefuses(round, db, payload) ==
    \/ payload.round_count # db.round_count
    \/ payload.sender \notin StateDB_get(db, "participants", {})
    \/ payload.sender # StateDB_get(db, "most_voted_keeper_address", None)
    \/ round.keeper_sent_payload

\* C13: an OnlyKeeperSends round refuses a payload with a wrong round_count, from a
\* non-participant, from a participant that is not the keeper, and any payload once one was
\* accepted, with TransactionNotValidError from check_payload and ABCIAppInternalError from
\* process_payload, leaving the round unchanged; it accepts every other payload of its
\* kind, storing its attribute; end_block returns None until a payload was accepted, then
\* done with payload_key set when the attribute is not None and fail when it is None.
C13_OnlyKeeperSends ==
    [][abci_app.current_round.cls = "K1" =>
          /\ (outcome'.call = "check_transaction" /\ outcome'.transaction.transaction_type = "K") =>
                 outcome'.err = (IF KeeperRefuses(abci_app.current_round, abci_app.db, outcome'.transaction) THEN "TransactionNotValidError" ELSE "ok")
          /\ (outcome'.call = "process_transaction" /\ outcome'.transaction.transaction_type = "K") =>
                 IF KeeperRefuses(abci_app.current_round, abci_app.db, outcome'.transaction)
                 THEN outcome'.err = "ABCIAppInternalError" /\ abci_app' = abci_app
                 ELSE /\ outcome'.err = "ok"
                      /\ abci_app'.current_round = [abci_app.current_round EXCEPT !.keeper_sent_payload = TRUE, !.keeper_payload = outcome'.transaction.value]
          /\ outcome'.call = "end_block" =>
                 /\ abci_app'.current_round = abci_app.current_round
                 /\ outcome'.event = (IF ~abci_app.current_round.keeper_sent_payload THEN None
                                      ELSE IF abci_app.current_round.keeper_payload # None THEN "done" ELSE "fail")
                 /\ outcome'.event = "done" => StateDB_get(abci_app'.db, payload_key("K1"), None) = abci_app.current_round.keeper_payload
                 /\ outcome'.event # "done" => abci_app'.db = abci_app.db]_vars

\* a second payload of the keeper was refused by process_payload and the first one kept
C13_Witness ==
    /\ abci_app.current_round.cls = "K1"
    /\ outcome.call = "process_transaction"
    /\ outcome.err = "ABCIAppInternalError"
    /\ outcome.transaction = Payload("a", abci_app.db.round_count, "K", None)
    /\ abci_app.current_round.keeper_payload = "X"

\* the three conditions under which a CollectionRound refuses a payload
CollectionRefuses(round, db, payload) ==
    \/ payload.round_count # db.round_count
    \/ payload.sender \notin StateDB_get(db, "participants", {})
    \/ payload.sender \in DOMAIN round.collection

\* the collection holds at most one payload per participant: the one that participant sent
OnePayloadPerParticipant ==
    \A s \in DOMAIN abci_app.current_round.collection :
        /\ s \in StateDB_get(abci_app.db, "participants", {})
        /\ abci_app.current_round.collection[s].sender = s

\* C14: check_payload and process_payload of a CollectionRound refuse a payload under the
\* same three conditions (wrong round_count, sender not a participant, sender already in
\* the collection), the first with TransactionNotValidError and the second with
\* ABCIAppInternalError; a refused payload leaves the collection unchanged, an accepted
\* one adds exactly the entry sender -> payload; so the collection holds at most one
\* payload per participant.
C14_CollectionGuard ==
    /\ []OnePayloadPerParticipant
    /\ [][(/\ abci_app.current_round.cls \in {"R2", "D1"}
           /\ outcome'.call \in {"check_transaction", "process_transaction"}
           /\ outcome'.transaction.transaction_type = allowed_tx_type(abci_app.current_round.cls)) =>
              LET payload == outcome'.transaction
                  collection == abci_app.current_round.collection
                  refused == CollectionRefuses(abci_app.current_round, abci_app.db, payload)
              IN  IF outcome'.call = "check_transaction"
                  THEN outcome'.err = (IF refused THEN "TransactionNotValidError" ELSE "ok") /\ abci_app' = abci_app
                  ELSE IF refused
                  THEN outcome'.err = "ABCIAppInternalError" /\ abci_app' = abci_app
                  ELSE /\ outcome'.err = "ok"
                       /\ DOMAIN abci_app'.current_round.collection = DOMAIN collection \cup {payload.sender}
                       /\ abci_app'.current_round.collection[payload.sender] = payload
                       /\ \A s \in DOMAIN collection : abci_app'.current_round.collection[s] = collection[s]]_vars

\* process_payload refused a second, different payload of a sender already collected
C14_Witness ==
    /\ abci_app.current_round.cls = "R2"
    /\ outcome.call = "process_transaction"
    /\ outcome.err = "ABCIAppInternalError"
    /\ outcome.transaction.sender \in DOMAIN abci_app.current_round.collection
    /\ outcome.transaction.round_count = abci_app.db.round_count
    /\ abci_app.current_round.collection[outcome.transaction.sender] # outcome.transaction

\* what the filter on the transaction type answers for a round and a transaction
KindFilter(round, tx) ==
    IF round.previous_round_tx_type # None /\ tx.transaction_type = round.previous_round_tx_type THEN "LateArrivingTransaction"
    ELSE IF tx.transaction_type # allowed_tx_type(round.cls) THEN "TransactionTypeNotRecognizedError"
    ELSE "pass"

\* C15: check_transaction and process_transaction of a round that allows a transaction
\* type raise LateArrivingTransaction when the transaction's type is the one of the
\* previous round, otherwise TransactionTypeNotRecognizedError when it is not the allowed
\* one, and only otherwise reach check_payload / process_payload; a transaction the filter
\* refuses leaves the round unchanged.
C15_KindFilter ==
    [][(outcome'.call \in {"check_transaction", "process_transaction"} /\ allowed_tx_type(abci_app.current_round.cls) # None) =>
          LET filter == KindFilter(abci_app.current_round, outcome'.transaction)
          IN  IF filter # "pass"
              THEN outcome'.err = filter /\ abci_app' = abci_app
              ELSE outcome'.err = (IF outcome'.call = "check_transaction"
                                   THEN Round_check_payload(abci_app.current_round, abci_app.db, outcome'.transaction)
                                   ELSE Round_process_payload(abci_app.current_round, abci_app.db, outcome'.transaction).err)]_vars

\* a transaction of the previous round's type was refused as late by a round that had
\* collected payloads
C15_Witness ==
    /\ outcome.call = "process_transaction"
    /\ outcome.err = "LateArrivingTransaction"
    /\ abci_app.current_round.previous_round_tx_type = outcome.transaction.transaction_type
    /\ DOMAIN abci_app.current_round.collection # {}

\* C16: after any sequence of update_current_period, add_new_period with any period
\* index, increment_round_count and cleanup, the data of the current period exist.
C16_AsStated == abci_app.db.current_period_count \in DOMAIN abci_app.db.data

\* the periods with fewer than n periods of a higher index
HighestPeriods(data, n) == {p \in DOMAIN data : Cardinality({q \in DOMAIN data : q > p}) < n}

\* C17: cleanup(d) keeps exactly the max(d, 1) periods of the highest indices (all of them
\* when there are fewer), each with its data unchanged, removes every other period, and
\* changes neither current_period nor round_count.
C17_Cleanup ==
    [][outcome'.call = "cleanup" =>
          LET d == outcome'.cleanup_history_depth
              n == IF d >= 1 THEN d ELSE 1
          IN  /\ DOMAIN abci_app'.db.data = HighestPeriods(abci_app.db.data, n)
              /\ Cardinality(DOMAIN abci_app'.db.data) = (IF Cardinality(DOMAIN abci_app.db.data) < n THEN Cardinality(DOMAIN abci_app.db.data) ELSE n)
              /\ \A p \in DOMAIN abci_app'.db.data : abci_app'.db.data[p] = abci_app.db.data[p]
              /\ abci_app'.db.current_period_count = abci_app.db.current_period_count
              /\ abci_app'.db.round_count = abci_app.db.round_count]_vars

\* cleanup(0) of a database of several periods left the one of the highest index, with
\* round_count advanced before
C17_Witness ==
    /\ outcome.call = "cleanup"
    /\ outcome.cleanup_history_depth = 0
    /\ DOMAIN abci_app.db.data = {MaxPeriod}
    /\ abci_app.db.data[MaxPeriod] = [k |-> "Y"]
    /\ abci_app.db.current_period_count = MaxPeriod
    /\ abci_app.db.round_count = MaxRoundCount

\* the application was set up and its execution has ended
Terminated == is_setup /\ AbciApp_is_finished(abci_app)

\* C18: is_finished becomes true exactly when process_event handles an event for which
\* the transition function of the current round class has no next round; from then on
\* is_finished stays true, begin_block fails with ABCIAppInternalError, and process_event
\* and update_time change neither the current round, nor round_count, previous_rounds or
\* round_results.
C18_Termination ==
    [][/\ (~AbciApp_is_finished(abci_app) /\ AbciApp_is_finished(abci_app')) <=>
              (/\ outcome'.call = "process_event"
               /\ abci_app.current_round_cls # None
               /\ transition_function_get(abci_app.current_round_cls, outcome'.event) = None)
       /\ Terminated =>
              /\ AbciApp_is_finished(abci_app')
              /\ outcome'.call = "begin_block" => outcome'.err = "ABCIAppInternalError" /\ abci_app' = abci_app
              /\ outcome'.call \in {"process_event", "update_time"} =>
                     /\ abci_app'.current_round = abci_app.current_round
                     /\ abci_app'.current_round_cls = abci_app.current_round_cls
                     /\ abci_app'.db.round_count = abci_app.db.round_count
                     /\ abci_app'.previous_rounds = abci_app.previous_rounds
                     /\ abci_app'.round_results = abci_app.round_results]_vars

\* after the dead end, with a timeout of the last round still armed, a later time was
\* observed and the entry popped
C18_Witness ==
    /\ Terminated
    /\ outcome.call = "update_time"
    /\ outcome.fired # <<>>
    /\ abci_app.previous_rounds # <<>>

\* C19: in every state reachable by setup, process_event, update_time and cleanup,
\* previous_rounds and round_results have the same length, so cleanup never raises
\* the ABCIAppInternalError for inconsistent round lengths.
C19_RoundLengths ==
    /\ Len(abci_app.previous_rounds) = Len(abci_app.round_results)
    /\ outcome.call = "cleanup" => outcome.err = "ok"

\* cleanup has truncated a history of several rounds to one
C19_Witness ==
    /\ outcome.call = "cleanup"
    /\ outcome.err = "ok"
    /\ abci_app.current_round_height >= 2
    /\ Len(abci_app.previous_rounds) = 1
    /\ Len(abci_app.round_results) = 1

\* C20: for every payload p of a registered variant, decode(encode(p)) == p, equality
\* comparing id_, round_count, sender and data.
C20_AsStated ==
    outcome.call = "decode" => outcome.err = "ok" /\ BaseTxPayload_eq(outcome.decoded, outcome.payload)

\* the class declares both required attributes
AttributesSet(cls) == cls.has_initial_round_cls /\ cls.has_transition_function

\* the timeout events and the other events going out of a round class
TimeoutEventsOf(cls, round_cls) == {e \in DOMAIN cls.transition_function[round_cls] : e \in DOMAIN cls.event_to_timeout}
OtherEventsOf(cls, round_cls) == {e \in DOMAIN cls.transition_function[round_cls] : e \notin DOMAIN cls.event_to_timeout}

\* some non-final round class has two or more timeout events, or no other event
TimeoutShapeBroken(cls) ==
    \E round_cls \in DOMAIN cls.transition_function \ cls.final_states :
        Cardinality(TimeoutEventsOf(cls, round_cls)) >= 2 \/ OtherEventsOf(cls, round_cls) = {}

\* C21 as stated: an application class with a non-final state of two or more timeout
\* events, or of no non-timeout event, is refused with ABCIAppInternalError
C21_AsStated ==
    (outcome.call = "new" /\ AttributesSet(outcome.abci_app_cls) /\ TimeoutShapeBroken(outcome.abci_app_cls)) =>
        outcome.err = "ABCIAppInternalError"

\* C21: an application class that declares the required attributes and has a non-final
\* state of two or more timeout events, or of no non-timeout event, is refused, with
\* AEAEnforceError; so in every accepted class each non-final round has at most one
\* timeout event and at least one non-timeout event.
C21_TimeoutShape ==
    outcome.call = "new" =>
        /\ (AttributesSet(outcome.abci_app_cls) /\ TimeoutShapeBroken(outcome.abci_app_cls)) => outcome.err = "AEAEnforceError"
        /\ outcome.err = "ok" =>
              \A round_cls \in DOMAIN outcome.abci_app_cls.transition_function \ outcome.abci_app_cls.final_states :
                  /\ Cardinality(TimeoutEventsOf(outcome.abci_app_cls, round_cls)) <= 1
                  /\ Cardinality(OtherEventsOf(outcome.abci_app_cls, round_cls)) >= 1

\* a class refused only for its timeout shape: R1 with the two timeout events and
\* done, initial, and a final round that is a sink
C21_Witness ==
    /\ outcome.call = "new"
    /\ outcome.err = "AEAEnforceError"
    /\ outcome.abci_app_cls.initial_round_cls = "R1"
    /\ outcome.abci_app_cls.initial_states = {}
    /\ outcome.abci_app_cls.final_states = {"FinalRound"}
    /\ DOMAIN outcome.abci_app_cls.transition_function = {"R1", "FinalRound"}
    /\ DOMAIN outcome.abci_app_cls.transition_function["R1"] = {"done", "T", "T2"}
    /\ DOMAIN outcome.abci_app_cls.transition_function["FinalRound"] = {}

\* the conditions on initial and final states the claim lists
InitialOrFinalBroken(cls) ==
    \/ cls.initial_round_cls \notin DOMAIN cls.transition_function
    \/ \E initial_state \in cls.initial_states : initial_state \notin DOMAIN cls.transition_function
    \/ \E initial_state \in (IF cls.initial_states = {} THEN {cls.initial_round_cls} ELSE cls.initial_states) : initial_state \in cls.final_states
    \/ \E final_state \in cls.final_states : final_state \notin DOMAIN cls.transition_function
    \/ \E final_state \in cls.final_states \cap DOMAIN cls.transition_function : DOMAIN cls.transition_function[final_state] # {}
    \/ \E final_state \in cls.final_states : RoundTemplate(final_state) # "DegenerateRound"

C23_AsStated ==
    [][(RoundTemplate(abci_app.current_round.cls) = "DegenerateRound" /\ outcome'.call \in {"check_transaction", "process_transaction", "end_block"}) =>
          outcome'.err = "ABCIAppInternalError"]_vars

\* C23: a DegenerateRound allows no transaction type; check_transaction and
\* process_transaction on it fail for every transaction, with
\* TransactionTypeNotRecognizedError, and end_block fails with NotImplementedError;
\* none of the three changes the round or the database.
C23_Degenerate ==
    [][RoundTemplate(abci_app.current_round.cls) = "DegenerateRound" =>
          /\ allowed_tx_type(abci_app.current_round.cls) = None
          /\ abci_app' = abci_app
          /\ outcome'.call \in {"check_transaction", "process_transaction"} => outcome'.err = "TransactionTypeNotRecognizedError"
          /\ outcome'.call = "end_block" => outcome'.err = "NotImplementedError"]_vars

\* the sink round refused a transaction whose type is None, as its own allowed type
C23_Witness ==
    /\ RoundTemplate(abci_app.current_round.cls) = "DegenerateRound"
    /\ outcome.call = "process_transaction"
    /\ outcome.err = "TransactionTypeNotRecognizedError"
    /\ outcome.transaction.transaction_type = None

\* the number of collected payloads that carry a vote
VotesFor(collection, vote) == Cardinality({s \in DOMAIN collection : collection[s].value = vote})

\* no vote can reach the threshold any more, however the participants that have not
\* voted vote
NoVoteCanWin(collection, n) ==
    \A vote \in {"True", "False", None} : VotesFor(collection, vote) + (n - Cardinality(DOMAIN collection)) < QuorumSize(n)

\* C24: end_block of a VotingRound returns done, with collection_key set to the
\* collection, when the True votes reach the threshold, negative when the False votes
\* do, none when the None votes do, no_majority when a majority is impossible and None
\* otherwise; at most one of the three counts reaches the threshold; negative, none and
\* no_majority leave the StateDB unchanged.
C24_AsStated ==
    [][(abci_app.current_round.cls = "V1" /\ outcome'.call = "end_block") =>
          LET collection == abci_app.current_round.collection
              threshold == QuorumSize(MaxVoters)
          IN  /\ outcome'.event = (IF VotesFor(collection, "True") >= threshold THEN "done"
                                   ELSE IF VotesFor(collection, "False") >= threshold THEN "negative"
                                   ELSE IF VotesFor(collection, None) >= threshold THEN "none"
                                   ELSE IF NoVoteCanWin(collection, MaxVoters) THEN "no_majority"
                                   ELSE None)
              /\ Cardinality({vote \in {"True", "False", None} : VotesFor(collection, vote) >= threshold}) <= 1
              /\ outcome'.event = "done" => StateDB_get(abci_app'.db, collection_key("V1"), None) = collection
              /\ outcome'.event \in {"negative", "none", "no_majority"} => abci_app'.db = abci_app.db]_vars

\* C25: for every N >= 0 the consensus threshold of N is ceil((2N+1)/3), the least
\* integer t with 3t >= 2N+1, which is floor(2N/3) + 1, and 3 for N = 4; for every N >= 1
\* it lies between 1 and N and twice the threshold exceeds N.
C25_Threshold ==
    outcome.call = "consensus_threshold" =>
        LET N == abci_app.consensus_params.max_participants
            t == outcome.threshold
        IN  /\ 3 * t >= 2 * N + 1 /\ 3 * (t - 1) < 2 * N + 1
            /\ t = (2 * N) \div 3 + 1
            /\ N = 4 => t = 3
            /\ N >= 1 => (1 <= t /\ t <= N /\ 2 * t > N)

\* the threshold of 4 participants was computed and is 3
C25_Witness ==
    /\ outcome.call = "consensus_threshold"
    /\ abci_app.consensus_params.max_participants = 4
    /\ outcome.threshold = 3

\* the rounds the application has created: the current one and the ones it keeps
RoundsCreated == {abci_app.previous_rounds[i] : i \in DOMAIN abci_app.previous_rounds} \cup ({abci_app.current_round} \ {NoRound})

\* C26: the previous-round transaction type of a round created by schedule_round is
\* the allowed type of the outgoing round when that differs from the allowed type of
\* the new round's class, and None otherwise, also for the first round; so no round
\* refuses a transaction of its own allowed type as LateArrivingTransaction.
C26_PreviousRoundTxType ==
    /\ abci_app.current_round # NoRound =>
          abci_app.current_round.previous_round_tx_type =
              (IF abci_app.last_round # NoRound /\ allowed_tx_type(abci_app.last_round.cls) # allowed_tx_type(abci_app.current_round.cls)
               THEN allowed_tx_type(abci_app.last_round.cls) ELSE None)
    /\ \A round \in RoundsCreated :
          /\ round.previous_round_tx_type \in {None} \cup ({"A", "B"} \ {allowed_tx_type(round.cls)})
          /\ allowed_tx_type(round.cls) # None =>
                 check_allowed_tx_type(round, Payload("a", abci_app.db.round_count, allowed_tx_type(round.cls), "X")) = "ok"

\* R1 scheduled again after R1, with no previous type, and R2 before it with the type of R1
C26_Witness ==
    /\ abci_app.current_round.cls = "R1"
    /\ abci_app.last_round.cls = "R1"
    /\ abci_app.current_round.previous_round_tx_type = None
    /\ \E i \in DOMAIN abci_app.previous_rounds :
          abci_app.previous_rounds[i].cls = "R2" /\ abci_app.previous_rounds[i].previous_round_tx_type = "A"

\* the ids of the heap entries that are not cancelled, and the ids the application holds
\* for its current round
UncancelledEntries == {abci_app.timeouts.heap[i].entry_count : i \in {j \in DOMAIN abci_app.timeouts.heap : ~abci_app.timeouts.heap[j].cancelled}}

CurrentTimeoutEntries == {abci_app.current_timeout_entries[i] : i \in DOMAIN abci_app.current_timeout_entries}

ObservesTime == outcome'.call \in {"update_time", "begin_block"} /\ outcome'.err = "ok"

\* C27 as stated: while a round is current the uncancelled heap entries are the ids in
\* current_timeout_entries, at most one, and update_time never passes to process_event the
\* event of a timeout armed for a round instance that is no longer the current one.
C27_AsStated ==
    /\ [](abci_app.current_round # NoRound => (UncancelledEntries = CurrentTimeoutEntries /\ Cardinality(UncancelledEntries) <= 1))
    /\ [][ObservesTime => \A i \in DOMAIN outcome'.fired : abci_app.current_round # NoRound /\ outcome'.fired[i].entry_count \in CurrentTimeoutEntries]_vars

\* C27: a cancelled timeout never fires.  While a round is current the uncancelled heap
\* entries are exactly the ids in current_timeout_entries, at most one, and an observation
\* of time made while a round is current fires at most one entry, an uncancelled one armed
\* for that round instance, whose event is in the round's transition function.  After a
\* dead end the entries of the last round stay armed: a later observation of time pops them
\* and passes their events to process_event, which ignores them.
C27_CancelledNeverFires ==
    /\ [](abci_app.current_round # NoRound => (UncancelledEntries = CurrentTimeoutEntries /\ Cardinality(UncancelledEntries) <= 1))
    /\ [][ObservesTime =>
            /\ \A i \in DOMAIN outcome'.fired : ~outcome'.fired[i].cancelled /\ outcome'.fired[i].entry_count \in UncancelledEntries
            /\ abci_app.current_round # NoRound =>
                   /\ Len(outcome'.fired) <= 1
                   /\ \A i \in DOMAIN outcome'.fired :
                          /\ outcome'.fired[i].entry_count \in CurrentTimeoutEntries
                          /\ transition_function_get(abci_app.current_round_cls, outcome'.fired[i].event) # None
            /\ abci_app.current_round = NoRound => (abci_app'.current_round = NoRound /\ abci_app'.previous_rounds = abci_app.previous_rounds /\ abci_app'.round_results = abci_app.round_results)]_vars

\* the timeout T2 of R2 fired while the cancelled entry of an earlier R1 was still in the heap
C27_Witness ==
    /\ outcome.call = "update_time"
    /\ outcome.err = "ok"
    /\ Len(outcome.fired) = 1
    /\ outcome.fired[1].event = "T2"
    /\ abci_app.current_round # NoRound
    /\ \E i \in DOMAIN abci_app.timeouts.heap : abci_app.timeouts.heap[i].cancelled /\ abci_app.timeouts.heap[i].event = "T"

\* the heap entries of the next state that the step added
ArmedByStep == {abci_app'.timeouts.heap[i] : i \in {j \in DOMAIN abci_app'.timeouts.heap : abci_app'.timeouts.heap[j].entry_count >= abci_app.timeouts.counter}}

LoopPass == outcome.in_loop /\ outcome'.iterations = outcome.iterations + 1

\* C29: update_time termination.  On the application whose durations are all positive (10
\* and 2 seconds) a call of update_time tests the loop's condition at most twice and fires
\* at most one timeout.  On the application whose timeout TZ, from Z1 to Z1, has duration 0,
\* a call of update_time made at or after the time Z1 was scheduled enters the loop, and
\* every pass fires TZ, schedules Z1 again with a timeout that is already expired, and stays
\* in the loop: the call never returns.
C29_UpdateTimeTermination ==
    /\ [](abci_app.current_round_cls # "Z1" =>
             /\ Len(outcome.fired) <= 1
             /\ outcome.iterations <= 2
             /\ outcome.in_loop => outcome.iterations <= 1)
    /\ []((abci_app.current_round_cls = "Z1" /\ outcome.call = "update_time") => outcome.in_loop)
    /\ [][(LoopPass /\ abci_app.current_round_cls = "Z1") =>
              /\ outcome'.in_loop
              /\ abci_app'.current_round_cls = "Z1"
              /\ Len(outcome'.fired) = Len(outcome.fired) + 1
              /\ outcome'.fired[Len(outcome'.fired)].event = "TZ"
              /\ ArmedByStep # {}
              /\ \A e \in ArmedByStep : e.deadline <= outcome.timestamp]_vars

\* three passes of the loop of one call fired TZ three times, and the call is still in the
\* loop with an expired timeout at the root of the heap
C29_Witness ==
    /\ outcome.call = "update_time"
    /\ outcome.in_loop
    /\ abci_app.current_round_cls = "Z1"
    /\ Len(outcome.fired) = 3
    /\ outcome.iterations = 3
    /\ Timeouts_get_earliest_timeout(abci_app.timeouts).deadline <= outcome.timestamp

\* C30: process_event(event, result).  On an application whose current_round_cls is None it
\* changes nothing.  Otherwise it appends the current round to previous_rounds and one entry
\* to round_results, result or, when result is absent, the current round's period_state;
\* then, when transition_function[current][event] exists, that class is scheduled, the new
\* round instance being built empty over the entry just appended, and otherwise
\* current_round_cls and current_round become None.
C30_ProcessEvent ==
    [][outcome'.call = "process_event" =>
          IF abci_app.current_round_cls = None THEN abci_app' = abci_app
          ELSE /\ abci_app'.previous_rounds = Append(abci_app.previous_rounds, abci_app.current_round)
               /\ abci_app'.round_results = Append(abci_app.round_results, IF outcome'.result # None THEN outcome'.result ELSE abci_app.current_round.period_state)
               /\ IF transition_function_get(abci_app.current_round_cls, outcome'.event) # None
                  THEN /\ abci_app'.current_round_cls = transition_function_get(abci_app.current_round_cls, outcome'.event)
                       /\ abci_app'.current_round.cls = abci_app'.current_round_cls
                       /\ abci_app'.current_round.collection = EmptyDict
                       /\ abci_app'.current_round.period_state = abci_app'.round_results[Len(abci_app'.round_results)]
                       /\ abci_app'.last_round = abci_app.current_round
                  ELSE /\ abci_app'.current_round_cls = None
                       /\ abci_app'.current_round = NoRound]_vars

\* a round built over a result that was passed ended without a result: its period_state was
\* appended to round_results and the next round is built over it
C30_Witness ==
    /\ outcome.call = "process_event"
    /\ outcome.result = None
    /\ Len(abci_app.round_results) >= 2
    /\ abci_app.round_results[Len(abci_app.round_results)] = "BasePeriodState"
    /\ abci_app.round_results[1] = AbciApp_initial_state
    /\ abci_app.current_round # NoRound
    /\ abci_app.current_round.period_state = "BasePeriodState"

\* the database after the step differs from the one before at most in the data of period p
\* and in current_period_count
OtherPeriodsUnchanged(p) ==
    /\ DOMAIN abci_app'.db.data = DOMAIN abci_app.db.data \cup {p}
    /\ \A q \in DOMAIN abci_app.db.data \ {p} : abci_app'.db.data[q] = abci_app.db.data[q]
    /\ abci_app'.db.round_count = abci_app.db.round_count
    /\ abci_app'.db.cross_period_persisted_keys = abci_app.db.cross_period_persisted_keys

\* C31: add_new_period(p, kv), called directly or through update(period_count=p, kv), sets
\* current_period to p and makes data[p] exactly kv, whatever p held and whatever the
\* previous period held for the cross-period persisted keys; the other periods and
\* round_count are unchanged.  update with period_count None merges kv into the data of the
\* current period and leaves current_period and the other periods unchanged.
C31_PeriodUpdates ==
    [][outcome'.err = "ok" =>
          /\ (outcome'.call = "add_new_period" \/ (outcome'.call = "update" /\ outcome'.period_count # NoPeriod)) =>
                 /\ abci_app'.db.current_period_count = outcome'.period_count
                 /\ abci_app'.db.data[outcome'.period_count] = outcome'.kwargs
                 /\ OtherPeriodsUnchanged(outcome'.period_count)
          /\ (outcome'.call = "update_current_period" \/ (outcome'.call = "update" /\ outcome'.period_count = NoPeriod)) =>
                 LET current == abci_app.db.current_period_count
                 IN  /\ abci_app'.db.current_period_count = current
                     /\ DOMAIN abci_app'.db.data[current] = DOMAIN abci_app.db.data[current] \cup DOMAIN outcome'.kwargs
                     /\ \A key \in DOMAIN abci_app'.db.data[current] :
                            abci_app'.db.data[current][key] = (IF key \in DOMAIN outcome'.kwargs THEN outcome'.kwargs[key] ELSE abci_app.db.data[current][key])
                     /\ OtherPeriodsUnchanged(current)]_vars

\* update opened period 1 with the key j alone: the persisted key k of period 0 was not
\* carried over
C31_Witness ==
    /\ outcome.call = "update"
    /\ outcome.err = "ok"
    /\ outcome.period_count = 1
    /\ DOMAIN outcome.kwargs = {"j"}
    /\ abci_app.db.current_period_count = 1
    /\ abci_app.db.data[1] = outcome.kwargs
    /\ 0 \in DOMAIN abci_app.db.data
    /\ "k" \in DOMAIN abci_app.db.data[0]
    /\ abci_app.db.cross_period_persisted_keys = <<"k">>

\* after is the list of the last n entries of before (all of them when there are fewer),
\* in the same order
LastEntries(before, after, n) ==
    /\ Len(after) = (IF Len(before) < n THEN Len(before) ELSE n)
    /\ \A i \in 1..Len(after) : after[i] = before[Len(before) - Len(after) + i]

C33_DeliverTx ==
    [][/\ (outcome'.call = "deliver_tx" /\ outcome'.err # "ok") =>
              (block_builder' = block_builder /\ abci_app' = abci_app /\ blockchain' = blockchain)
       /\ (outcome'.call = "deliver_tx" /\ outcome'.err = "ok") =>
              /\ Len(block_builder'.transactions) = Len(block_builder.transactions) + 1
              /\ SubSeq(block_builder'.transactions, 1, Len(block_builder.transactions)) = block_builder.transactions
              /\ LET transaction == block_builder'.transactions[Len(block_builder'.transactions)]
                 IN  /\ transaction.sender \notin DOMAIN abci_app.current_round.collection
                     /\ abci_app'.current_round.collection = DictSet(abci_app.current_round.collection, transaction.sender, transaction)
              /\ block_builder'.header = block_builder.header
       /\ (outcome'.call = "begin_block" /\ outcome'.err = "ok") => block_builder'.transactions = <<>>
       /\ outcome'.call \notin {"deliver_tx", "begin_block"} => block_builder' = block_builder
       /\ (outcome'.call = "commit" /\ outcome'.err \notin {"ABCIAppInternalError", "AddBlockError"}) =>
              blockchain' = Append(blockchain, Block(block_builder.header, block_builder.transactions))]_vars

\* a block of two transactions, b's delivered before a's, was committed
C33_Witness ==
    /\ outcome.call = "commit"
    /\ outcome.err = "ok"
    /\ Len(blockchain) >= 1
    /\ Len(blockchain[Len(blockchain)].transactions) = 2
    /\ blockchain[Len(blockchain)].transactions[1].sender = "b"
    /\ blockchain[Len(blockchain)].transactions[2].sender = "a"

\* C34 as stated: in a CollectSameUntilThreshold round of N participants, whenever no value
\* of the payload attribute has reached threshold(N) and N - |collection| + the highest
\* number of senders of one value is at least threshold(N), end_block returns None.
C34_AsStated ==
    (outcome.call = "end_block" /\ outcome.err = "ok") =>
        LET collection == abci_app.current_round.collection
            N == Cardinality(RoundParticipants)
            counts == {Cardinality(SendersOf(collection, v)) : v \in RoundValues}
        IN  ((\A c \in counts : c < QuorumSize(N)) /\ (\E c \in counts : N - Cardinality(DOMAIN collection) + c >= QuorumSize(N))) =>
                outcome.event = None

\* what end_block of the current round returns in the state before the step
CurrentEndBlock == Round_end_block(abci_app.current_round, abci_app.db, abci_app.consensus_params.max_participants)

\* the step writes the period data of the database
WritesPeriodData == abci_app'.db.data # abci_app.db.data \/ abci_app'.db.current_period_count # abci_app.db.current_period_count

\* C35: the period data of the StateDB is written only by the end_block of the round,
\* reached from commit, when it returns done: begin_block, deliver_tx accepted or rejected,
\* the driver's end_block and a commit whose round end_block returns None or no_majority,
\* none, negative or fail leave the data of every period and current_period unchanged;
\* round_count changes only by one, when a round is scheduled.
C35_StateDBWrites ==
    [][/\ WritesPeriodData =>
              /\ outcome'.call = "commit"
              /\ outcome'.err = "ok"
              /\ abci_app.current_round # NoRound
              /\ CurrentEndBlock.event = "done"
              /\ abci_app'.db.data = CurrentEndBlock.db.data
              /\ abci_app'.db.current_period_count = abci_app.db.current_period_count
       /\ (outcome'.call = "commit" /\ outcome'.err = "ok" /\ CurrentEndBlock.event \in {None, "no_majority", "none", "negative", "fail"}) => ~WritesPeriodData
       /\ outcome'.call \in {"begin_block", "deliver_tx", "end_block"} => ~WritesPeriodData
       /\ abci_app'.db.round_count # abci_app.db.round_count =>
              /\ abci_app'.db.round_count = abci_app.db.round_count + 1
              /\ abci_app'.current_round_height = abci_app.current_round_height + 1
              /\ abci_app'.current_round # NoRound
              /\ outcome'.call \in {"begin_block", "commit"}]_vars

\* a commit whose round ended with done wrote the collection into the current period
C35_Witness ==
    /\ outcome.call = "commit"
    /\ outcome.err = "ok"
    /\ abci_app.last_round.cls = "R2"
    /\ abci_app.current_round_cls = "FinalRound"
    /\ DOMAIN StateDB_get(abci_app.db, collection_key("R2"), EmptyDict) = Participants

\* the height of the block under construction is not the one the chain expects
HeightMismatch(builder) == builder.header.height # Blockchain_height(blockchain) + 1

\* C36: begin_block does not validate the header height.  A begin_block made in phase
\* WaitingForBeginBlock on a running app is accepted whatever the height of its header: it
\* sets last_timestamp to the header's timestamp and fires the timeouts that are due; the
\* transactions of a block of a wrong height are processed into the current round as those
\* of any block; the commit of such a block raises AddBlock and leaves the blockchain, the
\* application (the round's end_block is not called) and the phase, WaitingForCommit,
\* unchanged, and the commit of a block of the right height never raises AddBlock.
C36_HeightMismatch ==
    [][/\ (outcome'.call = "begin_block" /\ is_setup /\ ~AbciApp_is_finished(abci_app) /\ phase = WAITING_FOR_BEGIN_BLOCK) =>
              /\ outcome'.err = "ok"
              /\ phase' = WAITING_FOR_DELIVER_TX
              /\ abci_app'.last_timestamp = block_builder'.header.timestamp
              /\ abci_app' = AbciApp_update_time(abci_app, block_builder'.header.timestamp).app
              /\ outcome'.fired = AbciApp_update_time(abci_app, block_builder'.header.timestamp).fired
       /\ (outcome'.call = "deliver_tx" /\ phase = WAITING_FOR_DELIVER_TX /\ ~AbciApp_is_finished(abci_app)) =>
              \A transaction \in Transactions :
                  (AbstractRound_check_transaction(abci_app.current_round, abci_app.db, transaction) = "ok" /\ block_builder'.transactions = Append(block_builder.transactions, transaction)) =>
                      (outcome'.err = "ok" /\ abci_app'.current_round.collection = DictSet(abci_app.current_round.collection, transaction.sender, transaction))
       /\ (outcome'.call = "commit" /\ phase = WAITING_FOR_COMMIT) =>
              IF HeightMismatch(block_builder)
              THEN /\ outcome'.err = "AddBlockError"
                   /\ blockchain' = blockchain
                   /\ abci_app' = abci_app
                   /\ phase' = WAITING_FOR_COMMIT
              ELSE /\ outcome'.err # "AddBlockError"
                   /\ blockchain' = Append(blockchain, BlockBuilder_get_block(block_builder))]_vars

\* the second block, of height 3 and timestamp 11, fired the timeout T of R1 in its
\* begin_block and had a transaction processed into R2; its commit raised AddBlock
C36_Witness ==
    /\ outcome.call = "commit"
    /\ outcome.err = "AddBlockError"
    /\ phase = WAITING_FOR_COMMIT
    /\ Len(blockchain) = 1
    /\ block_builder.header.height = 3
    /\ block_builder.header.timestamp = 11
    /\ abci_app.last_timestamp = 11
    /\ abci_app.current_round_cls = "R2"
    /\ abci_app.last_round.cls = "R1"
    /\ block_builder.transactions # <<>>
    /\ DOMAIN abci_app.current_round.collection = {block_builder.transactions[i].sender : i \in DOMAIN block_builder.transactions}

\* the current round is the final, Degenerate one
InFinalRound == abci_app.current_round_cls \in final_states

\* C37: entering a final round does not finish the app.  While the current round is the
\* final one is_finished is false, and the round class, round_count and the StateDB data
\* never change again; begin_block in phase WaitingForBeginBlock is accepted; the commit of
\* a block of the right height appends the block and raises the NotImplementedError of the
\* round's end_block, leaving the phase at WaitingForCommit; from then on every
\* begin_block, deliver_tx, end_block and commit raises and leaves the phase as it is, and
\* only reset_blockchain(is_replay=True) moves the phase, to WaitingForBeginBlock.
C37_FinalRound ==
    [][InFinalRound =>
          /\ ~AbciApp_is_finished(abci_app)
          /\ abci_app'.current_round_cls = abci_app.current_round_cls
          /\ abci_app'.current_round = abci_app.current_round
          /\ abci_app'.db = abci_app.db
          /\ (outcome'.call = "begin_block" /\ phase = WAITING_FOR_BEGIN_BLOCK) => (outcome'.err = "ok" /\ phase' = WAITING_FOR_DELIVER_TX)
          /\ (outcome'.call = "commit" /\ phase = WAITING_FOR_COMMIT /\ ~HeightMismatch(block_builder)) =>
                 /\ outcome'.err = "NotImplementedError"
                 /\ blockchain' = Append(blockchain, BlockBuilder_get_block(block_builder))
                 /\ phase' = WAITING_FOR_COMMIT
          /\ (phase = WAITING_FOR_COMMIT /\ outcome'.call \in {"begin_block", "deliver_tx", "end_block", "commit"}) =>
                 (outcome'.err # "ok" /\ phase' = WAITING_FOR_COMMIT)
          /\ (phase = WAITING_FOR_COMMIT /\ phase' # phase) =>
                 (outcome'.call = "reset_blockchain" /\ phase' = WAITING_FOR_BEGIN_BLOCK /\ blockchain' = <<>>)]_vars

\* R2 ended with done into FinalRound, the next block was begun and its commit failed in
\* the end_block of FinalRound after the block was appended
C37_Witness ==
    /\ outcome.call = "commit"
    /\ outcome.err = "NotImplementedError"
    /\ phase = WAITING_FOR_COMMIT
    /\ abci_app.current_round_cls = "FinalRound"
    /\ abci_app.last_round.cls = "R2"
    /\ Len(blockchain) = 2
    /\ blockchain[2] = BlockBuilder_get_block(block_builder)

\* the transactions accepted so far: those of the blocks of the chain and of the block
\* being built
AcceptedTransactions ==
    UNION {{blockchain[i].transactions[j] : j \in DOMAIN blockchain[i].transactions} : i \in DOMAIN blockchain}
        \cup {block_builder.transactions[j] : j \in DOMAIN block_builder.transactions}

\* C38: the current round sees a round_count equal to the number of rounds scheduled
\* before it, constant while it is current and larger by one for each round scheduled
\* after it; deliver_tx accepts a payload only with the round_count of the current round,
\* and every accepted payload of an earlier round is rejected by check_transaction and
\* process_transaction of the current round.
C38_RoundCount ==
    /\ []((is_setup /\ ~AbciApp_is_finished(abci_app)) =>
            /\ abci_app.db.round_count = abci_app.current_round_height
            /\ \A tx \in AcceptedTransactions :
                   /\ tx.round_count <= abci_app.db.round_count
                   /\ tx.round_count < abci_app.db.round_count =>
                         /\ AbstractRound_check_transaction(abci_app.current_round, abci_app.db, tx) # "ok"
                         /\ AbstractRound_process_transaction(abci_app.current_round, abci_app.db, tx).err # "ok")
    /\ [][/\ abci_app'.db.round_count >= abci_app.db.round_count
          /\ (is_setup /\ abci_app'.current_round_height = abci_app.current_round_height) =>
                 abci_app'.db.round_count = abci_app.db.round_count
          /\ (outcome'.call = "deliver_tx" /\ outcome'.err = "ok") =>
                 /\ abci_app'.db.round_count = abci_app.db.round_count
                 /\ block_builder'.transactions[Len(block_builder'.transactions)].round_count = abci_app.db.round_count]_vars

\* R2 was scheduled again by T2 after a payload of b was accepted in R2: the payload has
\* the kind R2 allows and b has not sent in the new R2, which refuses it for its round_count
C38_Witness ==
    /\ abci_app.current_round_cls = "R2"
    /\ abci_app.last_round.cls = "R2"
    /\ \E tx \in AcceptedTransactions :
          /\ tx.transaction_type = allowed_tx_type("R2")
          /\ tx.sender = "b"
          /\ tx.round_count = abci_app.db.round_count - 1
          /\ "b" \notin DOMAIN abci_app.current_round.collection
          /\ abci_app.current_round.previous_round_tx_type = None
          /\ AbstractRound_check_transaction(abci_app.current_round, abci_app.db, tx) = "TransactionNotValidError"

\* the round scheduled by setup is current
FirstVisit == is_setup /\ abci_app.current_round_height = 0

\* C39: no timeout is armed for the round scheduled by setup.  Until setup and during the
\* first visit of the initial round the heap is empty and no entry is recorded, whatever
\* block times are observed, and no begin_block of the first visit fires an event or
\* leaves the initial round; the heap gets its first entry only in a step in which
\* process_event schedules a round with a timeout event, after a block was begun.
C39_SetupArmsNothing ==
    /\ []((~is_setup \/ FirstVisit) =>
            /\ abci_app.timeouts.heap = <<>>
            /\ abci_app.current_timeout_entries = <<>>)
    /\ [](FirstVisit => abci_app.current_round_cls = initial_round_cls)
    /\ [][/\ (FirstVisit /\ outcome'.call = "begin_block") =>
                 (outcome'.fired = <<>> /\ abci_app'.current_round_cls = initial_round_cls /\ abci_app'.current_round_height = 0)
          /\ (FirstVisit /\ outcome'.call = "begin_block" /\ outcome'.err = "ok") =>
                 abci_app'.last_timestamp > abci_app.last_timestamp
          /\ (abci_app.timeouts.counter = 0 /\ abci_app'.timeouts.heap # <<>>) =>
                 /\ abci_app'.current_round_height = abci_app.current_round_height + 1
                 /\ abci_app.last_timestamp # NoTime
                 /\ \E i \in DOMAIN transition_function(abci_app'.current_round_cls) :
                        transition_function(abci_app'.current_round_cls)[i][1] \in DOMAIN event_to_timeout]_vars

\* the initial round R1, which declares T of 10 seconds, is still in its first visit after
\* the blocks of times 0 and 11 were begun, with nothing armed
C39_Witness ==
    /\ FirstVisit
    /\ "T" \in {transition_function(initial_round_cls)[i][1] : i \in DOMAIN transition_function(initial_round_cls)}
    /\ outcome.call = "begin_block"
    /\ outcome.err = "ok"
    /\ Len(blockchain) = 1
    /\ blockchain[1].header.timestamp = 0
    /\ abci_app.last_timestamp = 11
    /\ abci_app.timeouts.heap = <<>>

\* the ids of the entries in the heap, in heap order
HeapIds(t) == [i \in DOMAIN t.heap |-> t.heap[i].entry_count]

\* the entries of the heap without their cancelled flags
HeapEntries(t) == [i \in DOMAIN t.heap |-> [t.heap[i] EXCEPT !.cancelled = FALSE]]

====
